---- MODULE Spec2Model ----
(***************************************************************************)
(* Validation-and-scoring pipeline of the plugin tester.                   *)
(*                                                                         *)
(* Text (names, descriptions, paths, bodies) is a sequence of one-character*)
(* strings, so that length, substring, prefix/suffix and pattern tests are *)
(* computed character by character as the Python code computes them.      *)
(* Python's None is the empty tuple <<>> and a present value v is <<v>>.   *)
(***************************************************************************)
EXTENDS Integers, Sequences, FiniteSets, TLC

VARIABLES
    name,                \* argument of the last _check_naming call (None before)
    naming_issues,       \* its return value
    description,         \* argument of the last _check_description_quality call
    desc_result,         \* its return value <<score, issues>>
    component,           \* argument of the last SkillValidator.validate call
    result,              \* its return value
    pc,                  \* "idle", or "run" while TestRunner.run is in its loop
    skill_files,         \* TestRunner.run: skill folders not yet visited
    validation_results,  \* TestRunner.run: the list being built
    doc_body,            \* argument of the last _calculate_documentation_score call
    documentation_score, \* its return value
    category_data,       \* _categorize_issues: the dict being filled
    folded,              \* _categorize_issues: number of issues visited so far
    score_report,        \* return value of StructuralScorer.score (None before)
    plugins,             \* run_all: its argument, a list of plugin info dicts
    max_workers,         \* TestRunner.max_workers
    progress_callback,   \* run_all: whether a progress callback was passed
    futures,             \* run_all: the submitted futures, in submission order
    yielded,             \* run_all: futures as_completed has handed out
    plugin_results,      \* run_all: the list 'results' being built
    completed,           \* run_all: the counter 'completed'
    progress_updates,    \* the calls the progress callback has received
    summary              \* return value of aggregate_results (None before)

doc_vars == <<doc_body, documentation_score>>

categorize_vars == <<category_data, folded>>

scorer_vars == <<categorize_vars, score_report>>

batch_vars == <<plugins, max_workers, progress_callback, futures, yielded,
                plugin_results, completed, progress_updates, summary>>

vars == <<name, naming_issues, description, desc_result, component, result,
          pc, skill_files, validation_results, doc_vars, scorer_vars,
          batch_vars>>

----------------------------------------------------------------------------
(* Bounds of the model *)

MaxNameTokens == 3
MaxDescTokens == 3
MaxSkills == 2
MaxDocTokens == 3
MaxResults == 2
MaxPlugins == 2
MaxWorkers == 2

----------------------------------------------------------------------------
(* Characters and text primitives (Python str / re semantics, ASCII) *)

None == <<>>
Some(v) == <<v>>

LowerLetters ==
    <<"a", "b", "c", "d", "e", "f", "g", "h", "i", "j", "k", "l", "m",
      "n", "o", "p", "q", "r", "s", "t", "u", "v", "w", "x", "y", "z">>
UpperLetters ==
    <<"A", "B", "C", "D", "E", "F", "G", "H", "I", "J", "K", "L", "M",
      "N", "O", "P", "Q", "R", "S", "T", "U", "V", "W", "X", "Y", "Z">>
Digits == <<"0", "1", "2", "3", "4", "5", "6", "7", "8", "9">>

\* The grave accent (U+0060), which a TLA+ string cannot hold, as a symbol.
Backtick == "GRAVE"

Range(s) == {s[i] : i \in DOMAIN s}

LowerSet == Range(LowerLetters)
UpperSet == Range(UpperLetters)
DigitSet == Range(Digits)

IsLower(c) == c \in LowerSet
IsUpper(c) == c \in UpperSet
IsDigit(c) == c \in DigitSet
\* \s of the re module and the separators of str.split()
SpaceSet == {" ", "\n", "\t"}
IsSpace(c) == c \in SpaceSet

\* str.lower() on one character
ToLower ==
    [c \in UpperSet |->
        LowerLetters[CHOOSE i \in DOMAIN UpperLetters : UpperLetters[i] = c]]
LowerChar(c) == IF IsUpper(c) THEN ToLower[c] ELSE c

\* Variant of Lower: the text is compared as written.
Lower_Identity(s) == s

\* str.lower()
Lower(s) == [i \in DOMAIN s |-> LowerChar(s[i])]

\* sub in s
Contains(s, sub) ==
    \E i \in 1..(Len(s) - Len(sub) + 1) :
        \A j \in 1..Len(sub) : s[i + j - 1] = sub[j]

\* s.startswith(p)
StartsWith(s, p) ==
    /\ Len(p) <= Len(s)
    /\ \A j \in 1..Len(p) : s[j] = p[j]

\* Variant of EndsWith: the suffix is compared ignoring case.
EndsWith_IgnoreCase(s, p) ==
    /\ Len(p) <= Len(s)
    /\ \A j \in 1..Len(p) : LowerChar(s[Len(s) - Len(p) + j]) = LowerChar(p[j])

\* s.endswith(p)
EndsWith(s, p) ==
    /\ Len(p) <= Len(s)
    /\ \A j \in 1..Len(p) : s[Len(s) - Len(p) + j] = p[j]

\* str(n) for n >= 0
RECURSIVE IntToStr(_)
IntToStr(n) ==
    IF n < 10 THEN <<Digits[n + 1]>>
    ELSE IntToStr(n \div 10) \o <<Digits[(n % 10) + 1]>>

\* "".join(parts)
RECURSIVE Join(_)
Join(parts) ==
    IF parts = <<>> THEN <<>> ELSE Head(parts) \o Join(Tail(parts))

\* The positions of s whose character does not continue a run of characters
\* of the set run: a maximal run is represented by its first position.
RunStarts(s, run) ==
    SelectSeq([i \in 1..Len(s) |-> i],
              LAMBDA i : ~(s[i] \in run /\ i > 1 /\ s[i - 1] \in run))

\* re.sub on a pattern [run]+: each maximal run of characters of the set run
\* is replaced by the one character by.
SubRuns(s, run, by) ==
    LET kept == RunStarts(s, run)
    IN [k \in 1..Len(kept) |-> IF s[kept[k]] \in run THEN by ELSE s[kept[k]]]

\* all sequences over S of length 0..n
SeqsUpTo(S, n) == UNION {[1..k -> S] : k \in 0..n}

Min(a, b) == IF a < b THEN a ELSE b
Max(a, b) == IF a > b THEN a ELSE b

----------------------------------------------------------------------------
(* models/results.py *)

ERROR == "error"
WARNING == "warning"
INFO == "info"
Severity == {ERROR, WARNING, INFO}

\* An f-string is kept as its template and the values substituted into it.
Text(fmt, args) == [fmt |-> fmt, args |-> args]

ValidationIssue(severity, category, message, file_path, suggestion) ==
    [severity |-> severity, category |-> category, message |-> message,
     file_path |-> file_path, line_number |-> None, suggestion |-> suggestion]

ValidationResult(component_type, component_name, component_path, valid, errors, warnings, info, scores) ==
    [component_type |-> component_type, component_name |-> component_name,
     component_path |-> component_path, valid |-> valid, errors |-> errors,
     warnings |-> warnings, info |-> info, scores |-> scores]

\* Variant of WithSeverity: the rule's issues are taken whatever their severity.
WithSeverity_All(issues, sev) == issues

\* [i for i in issues if i.severity == sev]
WithSeverity(issues, sev) == SelectSeq(issues, LAMBDA i : i.severity = sev)

----------------------------------------------------------------------------
(* validators/base.py: naming rule *)

MinNameLen == 3
MaxNameLen == 50

reserved_prefixes ==
    << <<"c", "l", "a", "u", "d", "e", "-">>,
       <<"a", "n", "t", "h", "r", "o", "p", "i", "c", "-">> >>

\* [a-z0-9] and [a-z0-9-]
IsAlnumLower(c) == IsLower(c) \/ IsDigit(c)
IsKebabChar(c) == IsAlnumLower(c) \/ c = "-"

\* The first n characters of s are [a-z0-9][a-z0-9-]*[a-z0-9].
KebabPrefix(s, n) ==
    /\ n >= 2
    /\ IsAlnumLower(s[1])
    /\ IsAlnumLower(s[n])
    /\ \A i \in 1..n : IsKebabChar(s[i])

\* Variant of MatchesKebab: the pattern ^[a-z0-9]+$, without the hyphen.
MatchesKebab_NoHyphen(s) ==
    /\ Len(s) >= 1
    /\ \A i \in 1..Len(s) : IsAlnumLower(s[i])

\* re.match(r'^[a-z0-9][a-z0-9-]*[a-z0-9]$', s) is not None.  Without
\* re.MULTILINE, $ matches at the end of the string and also just before a
\* newline that is the last character.
MatchesKebab(s) ==
    \/ KebabPrefix(s, Len(s))
    \/ /\ Len(s) >= 1
       /\ s[Len(s)] = "\n"
       /\ KebabPrefix(s, Len(s) - 1)

\* re.sub(r'[\s_]+', '-', text)
SubSpaceRuns(s) == SubRuns(s, SpaceSet \cup {"_"}, "-")

\* re.sub(r'[^a-z0-9-]', '', s)
DropNonKebab(s) == SelectSeq(s, IsKebabChar)

\* re.sub(r'-+', '-', s)
SubHyphenRuns(s) == SubRuns(s, {"-"}, "-")

\* s.strip('-')
StripHyphens(s) ==
    LET inner == {i \in DOMAIN s : s[i] # "-"}
    IN IF inner = {} THEN <<>>
       ELSE SubSeq(s, CHOOSE i \in inner : \A j \in inner : i <= j,
                      CHOOSE i \in inner : \A j \in inner : i >= j)

_to_kebab_case(text) ==
    StripHyphens(SubHyphenRuns(DropNonKebab(Lower(SubSpaceRuns(text)))))

TooShortIssue(n, file_path) ==
    ValidationIssue(ERROR, "naming",
        Text("Name '{name}' is too short (minimum 3 characters)", <<n>>),
        file_path,
        Some(Text("Use a more descriptive name (3-50 characters)", <<>>)))

TooLongIssue(n, file_path) ==
    ValidationIssue(ERROR, "naming",
        Text("Name '{name}' is too long (maximum 50 characters)", <<n>>),
        file_path, None)

FormatIssue(n, file_path) ==
    ValidationIssue(ERROR, "naming",
        Text("Name '{name}' must be kebab-case (lowercase, hyphens only)", <<n>>),
        file_path,
        Some(Text("Suggested: '{self._to_kebab_case(name)}'", <<_to_kebab_case(n)>>)))

ReservedIssue(n, file_path) ==
    ValidationIssue(ERROR, "naming",
        Text("Name '{name}' uses reserved prefix (claude-, anthropic-)", <<n>>),
        file_path,
        Some(Text("Choose a different name without reserved prefixes", <<>>)))

HasReservedPrefix(n) ==
    \E i \in DOMAIN reserved_prefixes : StartsWith(n, reserved_prefixes[i])

\* Variant of _check_naming: the four checks chained with elif.
_check_naming_elif(n, file_path) ==
    IF Len(n) < MinNameLen THEN <<TooShortIssue(n, file_path)>>
    ELSE IF Len(n) > MaxNameLen THEN <<TooLongIssue(n, file_path)>>
    ELSE IF ~MatchesKebab(n) THEN <<FormatIssue(n, file_path)>>
    ELSE IF HasReservedPrefix(n) THEN <<ReservedIssue(n, file_path)>>
    ELSE <<>>

_check_naming(n, file_path) ==
    (IF Len(n) < MinNameLen THEN <<TooShortIssue(n, file_path)>> ELSE <<>>)
    \o (IF Len(n) > MaxNameLen THEN <<TooLongIssue(n, file_path)>> ELSE <<>>)
    \o (IF ~MatchesKebab(n) THEN <<FormatIssue(n, file_path)>> ELSE <<>>)
    \o (IF HasReservedPrefix(n) THEN <<ReservedIssue(n, file_path)>> ELSE <<>>)

----------------------------------------------------------------------------
(* validators/base.py: required fields, description quality, injection *)

\* The text of a frontmatter key, for the f-strings that quote it.
FieldText(field) ==
    IF field = "name" THEN <<"n", "a", "m", "e">>
    ELSE <<"d", "e", "s", "c", "r", "i", "p", "t", "i", "o", "n">>

\* Variant of _check_required_fields: stops at the first missing field.
_check_required_fields_first(data, required, file_path) ==
    LET missing == SelectSeq(required, LAMBDA f : f \notin DOMAIN data)
    IN IF missing = <<>> THEN <<>>
       ELSE <<ValidationIssue(ERROR, "required_fields",
                 Text("Missing required field: '{field}'", <<FieldText(missing[1])>>),
                 file_path,
                 Some(Text("Add '{field}' field to frontmatter", <<FieldText(missing[1])>>)))>>

_check_required_fields(data, required, file_path) ==
    LET RECURSIVE Missing(_)
        Missing(fields) ==
            IF fields = <<>> THEN <<>>
            ELSE (IF Head(fields) \notin DOMAIN data
                  THEN <<ValidationIssue(ERROR, "required_fields",
                            Text("Missing required field: '{field}'", <<FieldText(Head(fields))>>),
                            file_path,
                            Some(Text("Add '{field}' field to frontmatter", <<FieldText(Head(fields))>>)))>>
                  ELSE <<>>)
                 \o Missing(Tail(fields))
    IN Missing(required)

MinDescLen == 10
LongDescLen == 100
MediumDescLen == 50

action_verbs ==
    << <<"c", "r", "e", "a", "t", "e", "s">>,
       <<"m", "a", "n", "a", "g", "e", "s">>,
       <<"a", "n", "a", "l", "y", "z", "e", "s">>,
       <<"g", "e", "n", "e", "r", "a", "t", "e", "s">>,
       <<"v", "a", "l", "i", "d", "a", "t", "e", "s">>,
       <<"c", "o", "n", "v", "e", "r", "t", "s">>,
       <<"p", "r", "o", "c", "e", "s", "s", "e", "s">>,
       <<"m", "o", "n", "i", "t", "o", "r", "s">>,
       <<"c", "o", "n", "f", "i", "g", "u", "r", "e", "s">>,
       <<"d", "e", "p", "l", "o", "y", "s">>,
       <<"b", "u", "i", "l", "d", "s">>,
       <<"t", "e", "s", "t", "s">>,
       <<"r", "u", "n", "s">>,
       <<"e", "x", "e", "c", "u", "t", "e", "s">>,
       <<"h", "a", "n", "d", "l", "e", "s">> >>

trigger_phrases ==
    << <<"u", "s", "e", " ", "w", "h", "e", "n">>,
       <<"u", "s", "e", " ", "t", "h", "i", "s">>,
       <<"t", "r", "i", "g", "g", "e", "r">>,
       <<"a", "s", "k", " ", "t", "o">>,
       <<"a", "s", "k", "s", " ", "f", "o", "r">>,
       <<"m", "e", "n", "t", "i", "o", "n", "s">>,
       <<"s", "a", "y", "s">>,
       <<"r", "e", "q", "u", "e", "s", "t", "s">>,
       <<"u", "s", "e", " ", "f", "o", "r">> >>

vague_patterns ==
    << <<"h", "e", "l", "p", "s", " ", "w", "i", "t", "h">>,
       <<"d", "o", "e", "s", " ", "t", "h", "i", "n", "g", "s">>,
       <<"g", "e", "n", "e", "r", "a", "l", " ", "p", "u", "r", "p", "o", "s", "e">>,
       <<"v", "a", "r", "i", "o", "u", "s", " ", "t", "a", "s", "k", "s">>,
       <<"s", "t", "u", "f", "f">> >>

\* any(p in text for p in phrases)
AnyIn(phrases, text) == \E i \in DOMAIN phrases : Contains(text, phrases[i])

\* sum(1 for p in phrases if p in text)
CountIn(phrases, text) ==
    Cardinality({i \in DOMAIN phrases : Contains(text, phrases[i])})

\* Index of the first '"' of s at or after position from; 0 when there is none.
NextQuote(s, from) ==
    LET later == {i \in from..Len(s) : s[i] = "\""}
    IN IF later = {} THEN 0
       ELSE CHOOSE i \in later : \A j \in later : i <= j

\* len(re.findall(r'"[^"]{3,}"', s[from-1:])): matches are found left to right
\* and do not overlap; a match runs from one '"' to the next one, with at least
\* 3 characters between them.
RECURSIVE CountQuoted(_, _)
CountQuoted(s, from) ==
    LET a == NextQuote(s, from)
        b == IF a = 0 THEN 0 ELSE NextQuote(s, a + 1)
    IN IF a = 0 \/ b = 0 THEN 0
       ELSE IF b - a - 1 >= 3 THEN 1 + CountQuoted(s, b + 1)
       ELSE CountQuoted(s, b)

\* Variant of IsTooShort: the boundary is off by one.
IsTooShort_OffByOne(d) == Len(d) < MinDescLen - 1

\* len(description) < 10
IsTooShort(d) == Len(d) < MinDescLen

DescTooShortIssue(file_path) ==
    ValidationIssue(ERROR, "description_quality",
        Text("Description too short (minimum 10 characters)", <<>>),
        file_path,
        Some(Text("Expand description with what the component does and when to use it", <<>>)))

NoActionIssue(file_path) ==
    ValidationIssue(WARNING, "description_quality",
        Text("Description lacks clear action statement", <<>>),
        file_path,
        Some(Text("Start with what the component does (e.g., 'Manages...', 'Analyzes...')", <<>>)))

NoTriggerIssue(file_path) ==
    ValidationIssue(WARNING, "description_quality",
        Text("Description missing trigger conditions", <<>>),
        file_path,
        Some(Text("Add 'Use when...' with specific user phrases", <<>>)))

VagueIssue(file_path) ==
    ValidationIssue(WARNING, "description_quality",
        Text("Description contains vague language", <<>>),
        file_path,
        Some(Text("Be specific about what the component does", <<>>)))

\* min(30, matches * 10) and min(20, quoted_count * 5)
TriggerPoints(matches) == Min(30, matches * 10)
QuotedPoints(quoted_count) == Min(20, quoted_count * 5)

\* Variant of ClampScore: only the upper bound is applied.
ClampScore_NoFloor(score) == Min(100, score)

\* max(0, min(100, score))
ClampScore(score) == Max(0, Min(100, score))

\* Returns <<score, issues>>.
_check_description_quality(d, file_path) ==
    IF IsTooShort(d) THEN <<0, <<DescTooShortIssue(file_path)>>>>
    ELSE
    LET low == Lower(d)
        lengthPoints == IF Len(d) >= LongDescLen THEN 20
                        ELSE IF Len(d) >= MediumDescLen THEN 10 ELSE 5
        hasVerb == AnyIn(action_verbs, low)
        matches == CountIn(trigger_phrases, low)
        quoted_count == CountQuoted(d, 1)
        vague == AnyIn(vague_patterns, low)
        score == lengthPoints
                 + (IF hasVerb THEN 20 ELSE 0)
                 + TriggerPoints(matches)
                 + QuotedPoints(quoted_count)
                 - (IF vague THEN 10 ELSE 0)
        issues == (IF hasVerb THEN <<>> ELSE <<NoActionIssue(file_path)>>)
                  \o (IF matches = 0 THEN <<NoTriggerIssue(file_path)>> ELSE <<>>)
                  \o (IF vague THEN <<VagueIssue(file_path)>> ELSE <<>>)
    IN <<ClampScore(score), issues>>

\* Variant of _check_xml_injection: looks for a closing tag only.
_check_xml_injection_closing(text, file_path) ==
    IF Contains(text, <<"<", "/">>)
    THEN <<ValidationIssue(ERROR, "security",
              Text("XML angle brackets detected in frontmatter (security risk)", <<>>),
              file_path,
              Some(Text("Remove < and > characters from frontmatter", <<>>)))>>
    ELSE <<>>

_check_xml_injection(text, file_path) ==
    IF "<" \in Range(text) \/ ">" \in Range(text)
    THEN <<ValidationIssue(ERROR, "security",
              Text("XML angle brackets detected in frontmatter (security risk)", <<>>),
              file_path,
              Some(Text("Remove < and > characters from frontmatter", <<>>)))>>
    ELSE <<>>

----------------------------------------------------------------------------
(* validators/skill_validator.py *)

MaxSchemaDescLen == 1024

SKILL_MD_SUFFIX == <<"/", "S", "K", "I", "L", "L", ".", "m", "d">>
UNKNOWN == <<"u", "n", "k", "n", "o", "w", "n">>

\* dict.get(key, default)
Get(d, key, default) == IF key \in DOMAIN d THEN d[key] ELSE default

\* Variant of _calculate_structural_score: no floor at 0.
_calculate_structural_score_nofloor(errors, warnings) ==
    100 - Len(errors) * 15 - Len(warnings) * 5

\* Variant of _calculate_structural_score: a warning costs 10 points.
_calculate_structural_score_warn10(errors, warnings) ==
    Max(0, 100 - Len(errors) * 15 - Len(warnings) * 10)

_calculate_structural_score(errors, warnings) ==
    Max(0, 100 - Len(errors) * 15 - Len(warnings) * 5)

\* len(body.split()): the number of maximal runs of non-whitespace characters
WordCount(body) ==
    Cardinality({i \in DOMAIN body :
        /\ ~IsSpace(body[i])
        /\ (i = 1 \/ IsSpace(body[i - 1]))})

\* Index of the first occurrence of sub in s starting at or after from; 0 if none.
Find(s, sub, from) ==
    LET hits == {i \in from..(Len(s) - Len(sub) + 1) :
                    \A j \in 1..Len(sub) : s[i + j - 1] = sub[j]}
    IN IF hits = {} THEN 0
       ELSE CHOOSE i \in hits : \A k \in hits : i <= k

\* s.count(sub): non-overlapping occurrences, found left to right
RECURSIVE CountSub(_, _, _)
CountSub(s, sub, from) ==
    LET a == Find(s, sub, from)
    IN IF a = 0 THEN 0 ELSE 1 + CountSub(s, sub, a + Len(sub))

\* Variant of _calculate_documentation_score: the 200-499 bucket starts at 201.
_calculate_documentation_score_201(text) ==
    LET word_count == WordCount(text)
        heading_count == CountSub(text, <<"#", "#">>, 1)
        score ==
            (IF 500 <= word_count /\ word_count <= 5000 THEN 30
             ELSE IF 200 < word_count /\ word_count < 500 THEN 20
             ELSE IF word_count <= 200 THEN 10 ELSE 0)
            + (IF \/ Contains(text, <<"#", "#", " ", "E", "x", "a", "m", "p", "l", "e">>)
                  \/ Contains(Lower(text),
                              <<"#", "#", " ", "e", "x", "a", "m", "p", "l", "e", "s">>)
               THEN 25 ELSE 0)
            + (IF heading_count >= 3 THEN 20
               ELSE IF heading_count >= 1 THEN 10 ELSE 0)
            + (IF Contains(text, <<Backtick, Backtick, Backtick>>) THEN 15 ELSE 0)
    IN Min(100, score)

_calculate_documentation_score(body) ==
    LET word_count == WordCount(body)
        heading_count == CountSub(body, <<"#", "#">>, 1)
        score ==
            (IF 500 <= word_count /\ word_count <= 5000 THEN 30
             ELSE IF 200 <= word_count /\ word_count < 500 THEN 20
             ELSE IF word_count < 200 THEN 10 ELSE 0)
            + (IF \/ Contains(body, <<"#", "#", " ", "E", "x", "a", "m", "p", "l", "e">>)
                  \/ Contains(Lower(body),
                              <<"#", "#", " ", "e", "x", "a", "m", "p", "l", "e", "s">>)
               THEN 25 ELSE 0)
            + (IF heading_count >= 3 THEN 20
               ELSE IF heading_count >= 1 THEN 10 ELSE 0)
            + (IF Contains(body, <<Backtick, Backtick, Backtick>>) THEN 15 ELSE 0)
    IN Min(100, score)

BadPathIssue(file_path) ==
    ValidationIssue(ERROR, "file_organization",
        Text("Skill file must be named 'SKILL.md' (exact case)", <<>>),
        file_path,
        Some(Text("Rename to SKILL.md", <<>>)))

FolderMismatchIssue(folder_name, n, file_path) ==
    ValidationIssue(WARNING, "file_organization",
        Text("Folder name '{folder_name}' doesn't match skill name '{name}'",
             <<folder_name, n>>),
        file_path,
        Some(Text("Rename folder to '{name}'", <<n>>)))

SchemaIssue(d, file_path) ==
    ValidationIssue(ERROR, "schema_compliance",
        Text("Description too long ({len(description)} characters, max 1024)",
             <<IntToStr(Len(d))>>),
        file_path,
        Some(Text("Shorten description or move details to SKILL.md body", <<>>)))

\* Variant of IsValid: validity is never recomputed from the error list.
IsValid_NeverFalse(errors) == TRUE

\* valid = len(errors) == 0
IsValid(errors) == Len(errors) = 0

\* Steps 2-10 of validate, for a frontmatter that has both required fields.
\* errors0 is the error list as the required-fields step left it.
ValidateRules(file_path, frontmatter, body, folder_name, errors0) ==
    LET n == frontmatter["name"]
        d == frontmatter["description"]
        naming == _check_naming(n, file_path)
        desc == _check_description_quality(d, file_path)
        desc_score == desc[1]
        desc_issues == desc[2]
        errors ==
            errors0
            \o WithSeverity(naming, ERROR)
            \o (IF ~EndsWith(file_path, SKILL_MD_SUFFIX)
                THEN <<BadPathIssue(file_path)>> ELSE <<>>)
            \o WithSeverity(desc_issues, ERROR)
            \o _check_xml_injection(d, file_path)
            \o (IF Len(d) > MaxSchemaDescLen
                THEN <<SchemaIssue(d, file_path)>> ELSE <<>>)
        warnings ==
            WithSeverity(naming, WARNING)
            \o (IF folder_name # <<>> /\ folder_name # n
                THEN <<FolderMismatchIssue(folder_name, n, file_path)>> ELSE <<>>)
            \o WithSeverity(desc_issues, WARNING)
        scores ==
            [structural |-> _calculate_structural_score(errors, warnings),
             functional |-> desc_score,
             documentation |-> _calculate_documentation_score(body)]
    IN ValidationResult("skill", n, file_path, IsValid(errors),
                        errors, warnings, <<>>, Some(scores))

\* SkillValidator.validate(component, plugin_context)
validate(c) ==
    LET file_path == Get(c, "file_path", UNKNOWN)
        frontmatter == Get(c, "frontmatter", <<>>)
        body == Get(c, "body", <<>>)
        folder_name == Get(c, "folder_name", <<>>)
        errors == _check_required_fields(frontmatter, <<"name", "description">>, file_path)
    IN IF \E i \in DOMAIN errors : errors[i].category = "required_fields"
       THEN ValidationResult("skill", Get(frontmatter, "name", UNKNOWN), file_path,
                             FALSE, errors, <<>>, <<>>, None)
       ELSE ValidateRules(file_path, frontmatter, body, folder_name, errors)

----------------------------------------------------------------------------
(* scoring/structural_scorer.py                                              *)
(*                                                                            *)
(* A Python dict is a sequence of <<key, value>> pairs in insertion order.   *)
(* A float is the exact rational [num, den] in lowest terms, den > 0.        *)

RECURSIVE GCD(_, _)
GCD(a, b) == IF b = 0 THEN a ELSE GCD(b, a % b)

\* n / d
Ratio(n, d) ==
    LET g == GCD(n, d)
    IN [num |-> n \div g, den |-> d \div g]

Float(n) == Ratio(n, 1)

\* sum(xs)
RECURSIVE SumSeq(_)
SumSeq(xs) == IF xs = <<>> THEN 0 ELSE Head(xs) + SumSeq(Tail(xs))

HasKey(d, k) == \E i \in DOMAIN d : d[i][1] = k
Lookup(d, k) == d[CHOOSE i \in DOMAIN d : d[i][1] = k][2]
\* d[k] = v
Put(d, k, v) ==
    IF HasKey(d, k)
    THEN [i \in DOMAIN d |-> IF d[i][1] = k THEN <<k, v>> ELSE d[i]]
    ELSE Append(d, <<k, v>>)

\* result.scores.get("structural", None) if result.scores else None
StructuralOf(r) ==
    IF r.scores = None THEN None
    ELSE IF "structural" \in DOMAIN r.scores[1] THEN Some(r.scores[1]["structural"])
    ELSE None

\* Variant of StructuralScoreOrFallback: a present score of 0 is taken as absent.
StructuralScoreOrFallback_Falsy(r) ==
    IF StructuralOf(r) # None /\ StructuralOf(r) # Some(0) THEN StructuralOf(r)[1]
    ELSE IF r.valid THEN 100 ELSE 0

\* Variant of StructuralScoreOrFallback: a result without a score counts 100.
StructuralScoreOrFallback_Full(r) ==
    IF StructuralOf(r) # None THEN StructuralOf(r)[1] ELSE 100

\* score if score is not None else (100.0 if result.valid else 0.0)
StructuralScoreOrFallback(r) ==
    IF StructuralOf(r) # None THEN StructuralOf(r)[1]
    ELSE IF r.valid THEN 100 ELSE 0

\* Variant of _empty_score: the overall score of nothing is 100.
_empty_score_full ==
    [overall_score |-> Float(100), total_components |-> 0, valid_components |-> 0,
     breakdown_by_category |-> <<>>, breakdown_by_type |-> <<>>,
     recommendations |-> <<>>]

_empty_score ==
    [overall_score |-> Float(0), total_components |-> 0, valid_components |-> 0,
     breakdown_by_category |-> <<>>, breakdown_by_type |-> <<>>,
     recommendations |-> <<>>]

\* the defaultdict's factory
NewCategory == [count |-> 0, severity |-> "info", examples |-> <<>>]

\* category_data[cat], created on first access
CategoryEntry(cats, cat) ==
    IF HasKey(cats, cat) THEN Lookup(cats, cat) ELSE NewCategory

Example(issue) == [message |-> issue.message, file |-> issue.file_path]

\* body of 'for error in result.errors'
ProcessErrorIssue(cats, error) ==
    LET old == CategoryEntry(cats, error.category)
    IN Put(cats, error.category,
           [count |-> old.count + 1,
            severity |-> "error",
            examples |-> Append(old.examples, Example(error))])

\* Variant of ProcessWarningIssue: the severity is set to warning unconditionally.
ProcessWarningIssue_Overwrite(cats, warning) ==
    LET old == CategoryEntry(cats, warning.category)
    IN Put(cats, warning.category,
           [count |-> old.count + 1,
            severity |-> "warning",
            examples |-> Append(old.examples, Example(warning))])

\* body of 'for warning in result.warnings'
ProcessWarningIssue(cats, warning) ==
    LET old == CategoryEntry(cats, warning.category)
    IN Put(cats, warning.category,
           [count |-> old.count + 1,
            severity |-> IF old.severity # "error" THEN "warning" ELSE old.severity,
            examples |-> Append(old.examples, Example(warning))])

\* Variant of ProcessInfoIssue: the severity is set to info unconditionally.
ProcessInfoIssue_Overwrite(cats, info) ==
    LET old == CategoryEntry(cats, info.category)
    IN Put(cats, info.category,
           [count |-> old.count + 1,
            severity |-> "info",
            examples |-> Append(old.examples, Example(info))])

\* body of 'for info in result.info'
ProcessInfoIssue(cats, info) ==
    LET old == CategoryEntry(cats, info.category)
    IN Put(cats, info.category,
           [count |-> old.count + 1,
            severity |-> IF old.severity \notin {"error", "warning"} THEN "info"
                         ELSE old.severity,
            examples |-> Append(old.examples, Example(info))])

\* The issues in the order the three loops of _categorize_issues visit them:
\* result by result, and within a result errors, warnings, info.
Tagged(list, issues) == [i \in DOMAIN issues |-> [list |-> list, issue |-> issues[i]]]

RECURSIVE IssueStream(_)
IssueStream(results) ==
    IF results = <<>> THEN <<>>
    ELSE Tagged("errors", Head(results).errors)
         \o Tagged("warnings", Head(results).warnings)
         \o Tagged("info", Head(results).info)
         \o IssueStream(Tail(results))

ProcessIssue(cats, t) ==
    IF t.list = "errors" THEN ProcessErrorIssue(cats, t.issue)
    ELSE IF t.list = "warnings" THEN ProcessWarningIssue(cats, t.issue)
    ELSE ProcessInfoIssue(cats, t.issue)

\* category_data after the first n issues of the stream
RECURSIVE Categorized(_, _)
Categorized(stream, n) ==
    IF n = 0 THEN <<>>
    ELSE ProcessIssue(Categorized(stream, n - 1), stream[n])

MaxExamples == 3

\* Variant of LimitExamples: the last MaxExamples examples are kept.
LimitExamples_Last(cats) ==
    [i \in DOMAIN cats |->
        LET e == cats[i][2].examples
        IN <<cats[i][1],
             [cats[i][2] EXCEPT
                 !.examples = SubSeq(e, Max(1, Len(e) - MaxExamples + 1), Len(e))]>>]

\* cat_info["examples"] = cat_info["examples"][:3]
LimitExamples(cats) ==
    [i \in DOMAIN cats |->
        <<cats[i][1],
          [cats[i][2] EXCEPT
              !.examples = SubSeq(@, 1, Min(MaxExamples, Len(@)))]>>]

_categorize_issues(results) ==
    LET stream == IssueStream(results)
    IN LimitExamples(Categorized(stream, Len(stream)))

\* the defaultdict's factory of _breakdown_by_type
NewType == [count |-> 0, scores |-> <<>>, valid_count |-> 0]

\* Variant of AddToType: a result that is not valid is not counted.
AddToType_ValidOnly(type_data, r) ==
    LET old == IF HasKey(type_data, r.component_type)
               THEN Lookup(type_data, r.component_type) ELSE NewType
    IN Put(type_data, r.component_type,
           [count |-> old.count + (IF r.valid THEN 1 ELSE 0),
            scores |-> Append(old.scores, StructuralScoreOrFallback(r)),
            valid_count |-> old.valid_count + (IF r.valid THEN 1 ELSE 0)])

\* body of 'for result in results' in _breakdown_by_type
AddToType(type_data, r) ==
    LET old == IF HasKey(type_data, r.component_type)
               THEN Lookup(type_data, r.component_type) ELSE NewType
    IN Put(type_data, r.component_type,
           [count |-> old.count + 1,
            scores |-> Append(old.scores, StructuralScoreOrFallback(r)),
            valid_count |-> old.valid_count + (IF r.valid THEN 1 ELSE 0)])

RECURSIVE TypeData(_, _)
TypeData(results, n) ==
    IF n = 0 THEN <<>> ELSE AddToType(TypeData(results, n - 1), results[n])

\* Variant of TypeAverage: the mean is truncated to a whole number.
TypeAverage_Truncated(data) == Float(SumSeq(data.scores) \div Len(data.scores))

\* sum(data["scores"]) / len(data["scores"]) if data["scores"] else 0.0
TypeAverage(data) ==
    IF data.scores # <<>> THEN Ratio(SumSeq(data.scores), Len(data.scores))
    ELSE Float(0)

_breakdown_by_type(results) ==
    LET type_data == TypeData(results, Len(results))
    IN [i \in DOMAIN type_data |->
           <<type_data[i][1],
             [count |-> type_data[i][2].count,
              avg_score |-> TypeAverage(type_data[i][2]),
              valid_count |-> type_data[i][2].valid_count]>>]

templates ==
    << <<"required_fields",
         [message |-> Text("Add missing required fields to component frontmatter", <<>>),
          priority |-> 1]>>,
       <<"schema_compliance",
         [message |-> Text("Fix schema violations (description length, field formats)", <<>>),
          priority |-> 1]>>,
       <<"file_organization",
         [message |-> Text("Rename files to match conventions (SKILL.md case-sensitive)", <<>>),
          priority |-> 2]>>,
       <<"naming_convention",
         [message |-> Text("Update component names to kebab-case (3-50 chars, lowercase)", <<>>),
          priority |-> 2]>>,
       <<"yaml_validity",
         [message |-> Text("Fix YAML/JSON parsing errors in frontmatter", <<>>),
          priority |-> 1]>> >>

\* Variant of Template: 'naming' is looked up as 'naming_convention'.
Template_NamingAlias(category) ==
    IF category = "naming" THEN Lookup(templates, "naming_convention")
    ELSE IF HasKey(templates, category) THEN Lookup(templates, category)
    ELSE [message |-> Text("Address {category} issues", <<category>>), priority |-> 3]

\* templates.get(category, {...})
Template(category) ==
    IF HasKey(templates, category) THEN Lookup(templates, category)
    ELSE [message |-> Text("Address {category} issues", <<category>>), priority |-> 3]

severity_order == << <<"error", 0>>, <<"warning", 1>>, <<"info", 2>> >>

\* (r["priority"], severity_order.get(r["severity"], 3)), as one number
SortKey(r) ==
    r.priority * 4
    + (IF HasKey(severity_order, r.severity) THEN Lookup(severity_order, r.severity) ELSE 3)

\* Variant of SortByKey: the list is left in insertion order.
SortByKey_Unsorted(recs) == recs

\* list.sort(key=...): ascending, equal keys keep their order
SortByKey(recs) ==
    LET place(i) ==
            1 + Cardinality({j \in DOMAIN recs :
                    \/ SortKey(recs[j]) < SortKey(recs[i])
                    \/ (SortKey(recs[j]) = SortKey(recs[i]) /\ j < i)})
    IN [p \in DOMAIN recs |-> recs[CHOOSE i \in DOMAIN recs : place(i) = p]]

\* Variant of NeedsRecommendation: info-only categories are recommended too.
NeedsRecommendation_Any(data) == TRUE

\* data["severity"] in ("error", "warning")
NeedsRecommendation(data) == data.severity \in {"error", "warning"}

Recommendation(category, data) ==
    [category |-> category,
     severity |-> data.severity,
     message |-> Template(category).message,
     affected_count |-> data.count,
     priority |-> Template(category).priority]

_generate_recommendations(category_breakdown) ==
    LET wanted == SelectSeq(category_breakdown, LAMBDA kv : NeedsRecommendation(kv[2]))
    IN SortByKey([i \in DOMAIN wanted |-> Recommendation(wanted[i][1], wanted[i][2])])

\* Variant of OverallScore: only the first result's score is taken.
OverallScore_First(results) == Float(StructuralScoreOrFallback(results[1]))

\* sum(structural_scores) / len(structural_scores)
OverallScore(results) ==
    Ratio(SumSeq([i \in DOMAIN results |-> StructuralScoreOrFallback(results[i])]),
          Len(results))

\* The report score assembles once the categories are known.
ScoreReport(results, category_breakdown) ==
    [overall_score |-> OverallScore(results),
     total_components |-> Len(results),
     valid_components |-> Len(SelectSeq(results, LAMBDA r : r.valid)),
     breakdown_by_category |-> category_breakdown,
     breakdown_by_type |-> _breakdown_by_type(results),
     recommendations |-> _generate_recommendations(category_breakdown)]

\* StructuralScorer.score(validation_results)
score(results) ==
    IF results = <<>> THEN _empty_score
    ELSE ScoreReport(results, _categorize_issues(results))

----------------------------------------------------------------------------
(* Inputs.  Texts are built from tokens chosen so that every threshold and    *)
(* every phrase table of the rules is met from both sides.                    *)

\* 'skills/my-skill/SKILL.md'
TestPath ==
    <<"s", "k", "i", "l", "l", "s", "/", "m", "y", "-", "s", "k", "i", "l",
      "l", "/", "S", "K", "I", "L", "L", ".", "m", "d">>

\* 'skills/my-skill/skill.md'
LowerCasePath ==
    <<"s", "k", "i", "l", "l", "s", "/", "m", "y", "-", "s", "k", "i", "l",
      "l", "/", "s", "k", "i", "l", "l", ".", "m", "d">>

\* 'SKILL.md'
BarePath ==
    <<"S", "K", "I", "L", "L", ".", "m", "d">>

\* 'my-skill'
MySkill ==
    <<"m", "y", "-", "s", "k", "i", "l", "l">>

\* 'different-name'
DifferentName ==
    <<"d", "i", "f", "f", "e", "r", "e", "n", "t", "-", "n", "a", "m", "e">>

\* 'ab'
Ab ==
    <<"a", "b">>

\* 'claude-my-skill'
ClaudeMySkill ==
    <<"c", "l", "a", "u", "d", "e", "-", "m", "y", "-", "s", "k", "i", "l",
      "l">>

\* 'My_Skill'
My_Skill ==
    <<"M", "y", "_", "S", "k", "i", "l", "l">>

\* "Manages database workflows. Use when user mentions 'database', 'SQL', or asks to 'optimize queries'."
ValidDesc ==
    <<"M", "a", "n", "a", "g", "e", "s", " ", "d", "a", "t", "a", "b", "a",
      "s", "e", " ", "w", "o", "r", "k", "f", "l", "o", "w", "s", ".", " ",
      "U", "s", "e", " ", "w", "h", "e", "n", " ", "u", "s", "e", "r", " ",
      "m", "e", "n", "t", "i", "o", "n", "s", " ", "'", "d", "a", "t", "a",
      "b", "a", "s", "e", "'", ",", " ", "'", "S", "Q", "L", "'", ",", " ",
      "o", "r", " ", "a", "s", "k", "s", " ", "t", "o", " ", "'", "o", "p",
      "t", "i", "m", "i", "z", "e", " ", "q", "u", "e", "r", "i", "e", "s",
      "'", ".">>

\* 'Manages database workflows. Use when user mentions "database", "SQL".'
SpecValidDesc ==
    <<"M", "a", "n", "a", "g", "e", "s", " ", "d", "a", "t", "a", "b", "a",
      "s", "e", " ", "w", "o", "r", "k", "f", "l", "o", "w", "s", ".", " ",
      "U", "s", "e", " ", "w", "h", "e", "n", " ", "u", "s", "e", "r", " ",
      "m", "e", "n", "t", "i", "o", "n", "s", " ", "\"", "d", "a", "t", "a",
      "b", "a", "s", "e", "\"", ",", " ", "\"", "S", "Q", "L", "\"", ".">>

\* 'Manages <script> stuff and things'
ScriptDesc ==
    <<"M", "a", "n", "a", "g", "e", "s", " ", "<", "s", "c", "r", "i", "p",
      "t", ">", " ", "s", "t", "u", "f", "f", " ", "a", "n", "d", " ", "t",
      "h", "i", "n", "g", "s">>

\* 'Too short'
TooShortDesc ==
    <<"T", "o", "o", " ", "s", "h", "o", "r", "t">>

\* 'Helps with stuff and things'
VagueDesc ==
    <<"H", "e", "l", "p", "s", " ", "w", "i", "t", "h", " ", "s", "t", "u",
      "f", "f", " ", "a", "n", "d", " ", "t", "h", "i", "n", "g", "s">>

\* 'This skill manages databases and queries.'
NoTriggerDesc ==
    <<"T", "h", "i", "s", " ", "s", "k", "i", "l", "l", " ", "m", "a", "n",
      "a", "g", "e", "s", " ", "d", "a", "t", "a", "b", "a", "s", "e", "s",
      " ", "a", "n", "d", " ", "q", "u", "e", "r", "i", "e", "s", ".">>

\* '# My Skill\n\nThis skill helps with database management.\n\n## Examples\n\nExample usage here.'
TestBody ==
    <<"#", " ", "M", "y", " ", "S", "k", "i", "l", "l", "\n", "\n", "T",
      "h", "i", "s", " ", "s", "k", "i", "l", "l", " ", "h", "e", "l", "p",
      "s", " ", "w", "i", "t", "h", " ", "d", "a", "t", "a", "b", "a", "s",
      "e", " ", "m", "a", "n", "a", "g", "e", "m", "e", "n", "t", ".",
      "\n", "\n", "#", "#", " ", "E", "x", "a", "m", "p", "l", "e", "s",
      "\n", "\n", "E", "x", "a", "m", "p", "l", "e", " ", "u", "s", "a",
      "g", "e", " ", "h", "e", "r", "e", ".">>

\* 'Manages '
T_Manages ==
    <<"M", "a", "n", "a", "g", "e", "s", " ">>

\* 'Use when user says or requests '
T_UseWhen ==
    <<"U", "s", "e", " ", "w", "h", "e", "n", " ", "u", "s", "e", "r", " ",
      "s", "a", "y", "s", " ", "o", "r", " ", "r", "e", "q", "u", "e", "s",
      "t", "s", " ">>

\* 'mentions '
T_Mentions ==
    <<"m", "e", "n", "t", "i", "o", "n", "s", " ">>

\* '"sql", "orm", "api" '
T_Quoted3 ==
    <<"\"", "s", "q", "l", "\"", ",", " ", "\"", "o", "r", "m", "\"", ",",
      " ", "\"", "a", "p", "i", "\"", " ">>

\* '"ab" '
T_QuotedShort ==
    <<"\"", "a", "b", "\"", " ">>

\* 'stuff '
T_Stuff ==
    <<"s", "t", "u", "f", "f", " ">>

\* '<b> '
T_Angle ==
    <<"<", "b", ">", " ">>

\* 'skills/'
SKILLS_DIR ==
    <<"s", "k", "i", "l", "l", "s", "/">>

\* 'mapping values are not allowed here'
YamlError ==
    <<"m", "a", "p", "p", "i", "n", "g", " ", "v", "a", "l", "u", "e", "s",
      " ", "a", "r", "e", " ", "n", "o", "t", " ", "a", "l", "l", "o", "w",
      "e", "d", " ", "h", "e", "r", "e">>

\* n copies of the character c
Pad(c, n) == [i \in 1..n |-> c]

\* Name tokens: a name is the concatenation of at most MaxNameTokens of them.
\* Pad("x", 47) with "a" and "b2" gives the lengths 49, 50 and 51.
NameTokens ==
    { <<"a">>, <<"b", "2">>, <<"-">>, <<"_">>, <<"Q">>, <<"\n">>,
      reserved_prefixes[1], reserved_prefixes[2], Pad("x", 47) }

Names == {Join(ts) : ts \in SeqsUpTo(NameTokens, MaxNameTokens)}

\* Description tokens: a description is the concatenation of at most
\* MaxDescTokens of them.  Pad("z", 45) with the others crosses 50 and 100.
DescTokens ==
    { T_Manages, T_UseWhen, T_Mentions, T_Quoted3, T_QuotedShort, T_Stuff,
      Pad("z", 45) }

Descriptions == {Join(ts) : ts \in SeqsUpTo(DescTokens, MaxDescTokens)}

\* Components handed to SkillValidator.validate.
LongReservedName == reserved_prefixes[1] \o <<"Q">> \o Pad("x", 47)
LongBadDesc == T_Angle \o T_Stuff \o Pad("z", MaxSchemaDescLen - 9)
LongCleanDesc == T_Manages \o Pad("z", MaxSchemaDescLen - 7)
LimitDesc == T_Manages \o Pad("z", MaxSchemaDescLen - 8)
CodeBody == <<"#", "#", " ", "A", "\n", "#", "#", " ", "B", "\n", "#", "#", "#", " ", "C", "\n",
              Backtick, Backtick, Backtick>>

ValidatorNames == {MySkill, Ab, ClaudeMySkill, My_Skill, LongReservedName}
ValidatorDescs ==
    {ValidDesc, SpecValidDesc, ScriptDesc, TooShortDesc, VagueDesc, NoTriggerDesc,
     LongBadDesc, LongCleanDesc, LimitDesc, T_Manages, <<>>}
Frontmatters ==
    {[name |-> n, description |-> d] : n \in ValidatorNames, d \in ValidatorDescs}
    \cup {[name |-> n] : n \in ValidatorNames}
    \cup {[description |-> d] : d \in ValidatorDescs}
    \cup {<<>>}
Paths == {TestPath, LowerCasePath, BarePath}
Folders == {MySkill, DifferentName, <<>>}
Bodies == {TestBody, CodeBody, <<>>}

Components ==
    {[file_path |-> p, frontmatter |-> fm, body |-> b, folder_name |-> f] :
        p \in Paths, fm \in Frontmatters, b \in Bodies, f \in Folders}
    \cup {[frontmatter |-> fm] : fm \in Frontmatters}

\* Bodies handed to _calculate_documentation_score: blocks of n words for
\* the word-count thresholds, and every text of at most MaxDocTokens tokens.
Words(n) == [i \in 1..(2 * n) |-> IF i % 2 = 1 THEN "w" ELSE " "]

WordCounts == {0, 199, 200, 499, 500, 5000, 5001}

DocTokens ==
    { <<"#", "#", " ", "E", "x", "a", "m", "p", "l", "e", " ", "1", "\n">>,
      <<"#", "#", " ", "E", "X", "A", "M", "P", "L", "E", "\n">>,
      <<"#", "#", "#", " ", "E", "X", "A", "M", "P", "L", "E", "S", "\n">>,
      <<"#", "#", " ", "U", "s", "a", "g", "e", "\n">>,
      <<"#", " ", "T", "i", "t", "l", "e", "\n">>,
      <<"#", "#", "#", "#", " ", "D", "e", "e", "p", "\n">>,
      <<Backtick, Backtick, Backtick, "\n">>,
      <<"s", "o", "m", "e", " ", "t", "e", "x", "t", "\n">> }

\* 500 words, an Examples heading, two more headings and a code fence
FullBody ==
    Words(500)
    \o <<"\n", "#", "#", " ", "e", "x", "a", "m", "p", "l", "e", "s", "\n">>
    \o <<"#", "#", " ", "U", "s", "a", "g", "e", "\n">>
    \o <<"#", "#", " ", "N", "o", "t", "e", "s", "\n">>
    \o <<Backtick, Backtick, Backtick, "\n">>

DocBodies ==
    {Words(n) : n \in WordCounts}
    \cup {Words(n) \o Join(ts) : n \in {199, 200}, ts \in SeqsUpTo(DocTokens, 1)}
    \cup {Join(ts) : ts \in SeqsUpTo(DocTokens, MaxDocTokens)}
    \cup {FullBody}

\* Skill folders met by TestRunner.run: the folder's name and what parsing its
\* SKILL.md yields (an exception, or a frontmatter and a body).
ParseOutcomes ==
    {[raises |-> TRUE, error |-> YamlError],
     [raises |-> FALSE, frontmatter |-> <<>>, body |-> TestBody],
     [raises |-> FALSE, frontmatter |-> [name |-> MySkill, description |-> ValidDesc],
      body |-> TestBody],
     [raises |-> FALSE, frontmatter |-> [name |-> Ab, description |-> ScriptDesc],
      body |-> <<>>],
     [raises |-> FALSE, frontmatter |-> [name |-> MySkill], body |-> <<>>]}

SkillFiles ==
    {[folder_name |-> f, outcome |-> o] :
        f \in {MySkill, DifferentName}, o \in ParseOutcomes}

----------------------------------------------------------------------------
(* runner.py: TestRunner.run, one skill folder per step *)

\* str(skill_folder / "SKILL.md")
SkillPath(folder_name) == SKILLS_DIR \o folder_name \o SKILL_MD_SUFFIX

\* _parse_skill_file's return value for a file that parses
ParsedComponent(sf) ==
    [file_path |-> SkillPath(sf.folder_name), frontmatter |-> sf.outcome.frontmatter,
     body |-> sf.outcome.body, folder_name |-> sf.folder_name]

\* Variant of ParseFailureResult: the failure is recorded as a warning.
ParseFailureResult_Warning(folder_name, error) ==
    ValidationResult("skill", folder_name, SkillPath(folder_name), FALSE, <<>>,
        <<ValidationIssue(WARNING, "parsing",
              Text("Failed to parse skill file: {str(e)}", <<error>>),
              SkillPath(folder_name), None)>>,
        <<>>, None)

\* The result the except branch builds.
ParseFailureResult(folder_name, error) ==
    ValidationResult("skill", folder_name, SkillPath(folder_name), FALSE,
        <<ValidationIssue(ERROR, "parsing",
              Text("Failed to parse skill file: {str(e)}", <<error>>),
              SkillPath(folder_name), None)>>,
        <<>>, <<>>, None)

\* Results handed to StructuralScorer.score.
\* '/test/SKILL.md'
TestSkillPath ==
    <<"/", "t", "e", "s", "t", "/", "S", "K", "I", "L", "L", ".", "m",
      "d">>

\* '/test/skill.md'
FlawedPath ==
    <<"/", "t", "e", "s", "t", "/", "s", "k", "i", "l", "l", ".", "m",
      "d">>

\* '/test/agent.md'
AgentPath ==
    <<"/", "t", "e", "s", "t", "/", "a", "g", "e", "n", "t", ".", "m",
      "d">>

TestSkillName ==
    <<"t", "e", "s", "t", "-", "s", "k", "i", "l", "l">>

FlawedSkillName ==
    <<"f", "l", "a", "w", "e", "d", "-", "s", "k", "i", "l", "l">>

TestAgentName ==
    <<"t", "e", "s", "t", "-", "a", "g", "e", "n", "t">>

perfect_validation_result ==
    ValidationResult("skill", TestSkillName, TestSkillPath, TRUE, <<>>, <<>>, <<>>,
        Some([structural |-> 100, functional |-> 95, documentation |-> 90]))

flawed_validation_result ==
    ValidationResult("skill", FlawedSkillName, FlawedPath, FALSE,
        << ValidationIssue(ERROR, "required_fields",
               Text("Missing required field: description", <<>>), FlawedPath, None),
           ValidationIssue(ERROR, "schema_compliance",
               Text("Description exceeds 1024 characters", <<>>), FlawedPath, None) >>,
        << ValidationIssue(WARNING, "file_organization",
               Text("File should be named SKILL.md (case-sensitive)", <<>>),
               FlawedPath, None) >>,
        <<>>,
        Some([structural |-> 55, functional |-> 70, documentation |-> 60]))

agent_result ==
    ValidationResult("agent", TestAgentName, AgentPath, TRUE, <<>>, <<>>, <<>>,
        Some([structural |-> 90]))

\* scores={}
missing_structural_result ==
    ValidationResult("skill", TestSkillName, TestSkillPath, TRUE, <<>>, <<>>, <<>>,
        Some(<<>>))

\* a structural score of 0 that is present
zero_score_result ==
    ValidationResult("agent", TestAgentName, AgentPath, TRUE, <<>>, <<>>, <<>>,
        Some([structural |-> 0]))

\* warnings and info only; no structural score among the scores
info_result ==
    ValidationResult("command", TestSkillName, TestSkillPath, TRUE, <<>>,
        << ValidationIssue(WARNING, "required_fields",
               Text("Optional field missing", <<>>), TestSkillPath, None) >>,
        << ValidationIssue(INFO, "file_organization",
               Text("Consider a references folder", <<>>), TestSkillPath, None),
           ValidationIssue(INFO, "style",
               Text("Consider shorter sentences", <<>>), TestSkillPath, None),
           ValidationIssue(INFO, "yaml_validity",
               Text("Frontmatter uses tabs", <<>>), TestSkillPath, None) >>,
        Some([functional |-> 70]))

\* four issues of one category, and categories without a template
crowded_result ==
    ValidationResult("skill", FlawedSkillName, FlawedPath, FALSE,
        << ValidationIssue(ERROR, "naming_convention",
               Text("Name is too short", <<>>), FlawedPath, None),
           ValidationIssue(ERROR, "security",
               Text("Description contains XML tags", <<>>), FlawedPath, None),
           ValidationIssue(ERROR, "naming_convention",
               Text("Name uses a reserved prefix", <<>>), FlawedPath, None),
           ValidationIssue(ERROR, "yaml_validity",
               Text("Frontmatter is not a mapping", <<>>), FlawedPath, None) >>,
        << ValidationIssue(WARNING, "naming_convention",
               Text("Name differs from folder", <<>>), FlawedPath, None),
           ValidationIssue(WARNING, "description_quality",
               Text("Description contains vague language", <<>>), FlawedPath, None) >>,
        << ValidationIssue(INFO, "naming_convention",
               Text("Name could be shorter", <<>>), FlawedPath, None) >>,
        Some([structural |-> 30, functional |-> 40, documentation |-> 10]))

\* one ERROR in required_fields
result_with_error ==
    ValidationResult("skill", TestSkillName, FlawedPath, FALSE,
        << ValidationIssue(ERROR, "required_fields",
               Text("Missing field", <<>>), FlawedPath, None) >>,
        <<>>, <<>>,
        Some([structural |-> 70]))

\* one WARNING in file_organization
result_with_warning ==
    ValidationResult("skill", TestSkillName, TestSkillPath, TRUE, <<>>,
        << ValidationIssue(WARNING, "file_organization",
               Text("Minor issue", <<>>), TestSkillPath, None) >>,
        <<>>,
        Some([structural |-> 95]))

ScorerResults ==
    { perfect_validation_result, flawed_validation_result, agent_result,
      missing_structural_result, zero_score_result, info_result, crowded_result,
      result_with_error, result_with_warning,
      ParseFailureResult(MySkill, YamlError),
      validate([file_path |-> TestPath,
                frontmatter |-> [name |-> Ab, description |-> VagueDesc],
                body |-> TestBody, folder_name |-> MySkill]) }

----------------------------------------------------------------------------
(* runner.py: TestRunner.run_all and aggregate_results *)

\* 'good'
GoodName == <<"g", "o", "o", "d">>
\* 'bad'
BadName == <<"b", "a", "d">>
\* 'empty'
EmptyName == <<"e", "m", "p", "t", "y">>
\* 'locked'
LockedName == <<"l", "o", "c", "k", "e", "d">>
\* '1.0.0'
Version100 == <<"1", ".", "0", ".", "0">>

\* '<root>/<name>/1.0.0'
PluginPath(plugin_name) == <<"/">> \o plugin_name \o <<"/">> \o Version100

\* Plugin info dicts as discover_plugins builds them; run reads 'version'
\* with a default, so one dict comes without it.
PluginInfo(plugin_name, version) ==
    [name |-> plugin_name, version |-> version, path |-> PluginPath(plugin_name)]

Plugins ==
    {PluginInfo(GoodName, Some(Version100)), PluginInfo(BadName, None),
     PluginInfo(EmptyName, Some(Version100)), PluginInfo(LockedName, Some(Version100))}

\* '[Errno 13] Permission denied'
PermissionDenied ==
    <<"[", "E", "r", "r", "n", "o", " ", "1", "3", "]", " ", "P", "e", "r",
      "m", "i", "s", "s", "i", "o", "n", " ", "d", "e", "n", "i", "e", "d">>

\* What run meets on disk at a plugin's path: the skill folders of its
\* skills directory (a skill that is fine; a file that does not parse and a
\* file without frontmatter; no skill at all), or a skills directory whose
\* listing raises.
SkillsAt(path) ==
    IF path = PluginPath(GoodName)
    THEN <<[folder_name |-> MySkill,
            outcome |-> [raises |-> FALSE,
                         frontmatter |-> [name |-> MySkill, description |-> ValidDesc],
                         body |-> TestBody]]>>
    ELSE IF path = PluginPath(BadName)
    THEN <<[folder_name |-> MySkill, outcome |-> [raises |-> TRUE, error |-> YamlError]],
           [folder_name |-> DifferentName,
            outcome |-> [raises |-> FALSE, frontmatter |-> <<>>, body |-> TestBody]]>>
    ELSE <<>>

\* skills_dir.iterdir() raises
RunRaises(plugin_info) == plugin_info.path = PluginPath(LockedName)

\* the loop of TestRunner.run over the skill folders
RunValidationResults(files) ==
    [i \in DOMAIN files |->
        IF files[i].outcome.raises
        THEN ParseFailureResult(files[i].folder_name, files[i].outcome.error)
        ELSE validate(ParsedComponent(files[i]))]

\* plugin_info.get("version", "unknown")
VersionOrUnknown(plugin_info) ==
    IF plugin_info.version = None THEN UNKNOWN ELSE plugin_info.version[1]

\* TestRunner.run(plugin_info), when it returns
run(plugin_info) ==
    LET collected == RunValidationResults(SkillsAt(plugin_info.path))
    IN [plugin_name |-> plugin_info.name,
        plugin_version |-> VersionOrUnknown(plugin_info),
        plugin_path |-> plugin_info.path,
        validation_results |-> collected,
        structural_score |-> score(collected)]

\* what a worker thread leaves in the future of self.run(plugin)
FutureOutcome(plugin_info) ==
    IF RunRaises(plugin_info)
    THEN [raised |-> TRUE, exception |-> PermissionDenied]
    ELSE [raised |-> FALSE, value |-> run(plugin_info)]

\* the entry the except branch of run_all appends
DegradedResult(plugin_info, error) ==
    [plugin_name |-> plugin_info.name,
     plugin_version |-> VersionOrUnknown(plugin_info),
     plugin_path |-> plugin_info.path,
     error |-> error,
     validation_results |-> <<>>,
     structural_score |-> score(<<>>)]

\* Variant of CallbackArgs: current counts from zero.
CallbackArgs_ZeroBased(done, total, plugin_info) ==
    [current |-> done - 1, total |-> total, plugin |-> plugin_info.name]

\* progress_callback(completed, total, plugin["name"])
CallbackArgs(done, total, plugin_info) ==
    [current |-> done, total |-> total, plugin |-> plugin_info.name]

\* a + b and q / n on exact rationals
AddRatio(a, b) == Ratio(a.num * b.den + b.num * a.den, a.den * b.den)
DivRatio(q, n) == Ratio(q.num, q.den * n)

RECURSIVE SumRatios(_)
SumRatios(qs) == IF qs = <<>> THEN Float(0) ELSE AddRatio(Head(qs), SumRatios(Tail(qs)))

\* r.get("validation_results", [])
ValidationResultsOf(r) ==
    IF "validation_results" \in DOMAIN r THEN r.validation_results ELSE <<>>

\* Variant of HasInvalid: a plugin whose run failed counts as having errors.
HasInvalid_OrFailed(r) ==
    \/ \E k \in DOMAIN ValidationResultsOf(r) : ~ValidationResultsOf(r)[k].valid
    \/ "error" \in DOMAIN r

\* any(not vr.valid for vr in r.get("validation_results", []))
HasInvalid(r) ==
    \E k \in DOMAIN ValidationResultsOf(r) : ~ValidationResultsOf(r)[k].valid

\* TestRunner.aggregate_results(results)
aggregate_results(results) ==
    LET scored == SelectSeq(results, LAMBDA r : "structural_score" \in DOMAIN r)
        structural_scores == [i \in DOMAIN scored |-> scored[i].structural_score.overall_score]
        with_errors == Len(SelectSeq(results, HasInvalid))
    IN [total_plugins |-> Len(results),
        total_components |->
            SumSeq([i \in DOMAIN results |-> Len(ValidationResultsOf(results[i]))]),
        avg_structural_score |->
            IF structural_scores # <<>>
            THEN DivRatio(SumRatios(structural_scores), Len(structural_scores))
            ELSE Float(0),
        plugins_with_errors |-> with_errors,
        plugins_clean |-> Len(results) - with_errors]

----------------------------------------------------------------------------
(* State machine *)

\* No run_all is in progress.
NoBatch ==
    /\ plugins = <<>> /\ max_workers = 1 /\ progress_callback = FALSE
    /\ futures = <<>> /\ yielded = <<>> /\ plugin_results = <<>>
    /\ completed = 0 /\ progress_updates = <<>> /\ summary = None

\* A call of SkillValidator.validate on a component.
InitValidate ==
    /\ pc = "validate"
    /\ component \in {Some(c) : c \in Components}
    /\ result = None
    /\ skill_files = <<>>
    /\ validation_results = <<>>
    /\ name = None /\ naming_issues = None
    /\ description = None /\ desc_result = None
    /\ doc_body = None /\ documentation_score = None
    /\ category_data = <<>> /\ folded = 0 /\ score_report = None
    /\ NoBatch

\* A call of TestRunner.run on a plugin with the given skill folders.
InitRun ==
    /\ pc = "run"
    /\ skill_files \in SeqsUpTo(SkillFiles, MaxSkills)
    /\ validation_results = <<>>
    /\ component = None
    /\ result = None
    /\ name = None /\ naming_issues = None
    /\ description = None /\ desc_result = None
    /\ doc_body = None /\ documentation_score = None
    /\ category_data = <<>> /\ folded = 0 /\ score_report = None
    /\ NoBatch

Init == InitValidate \/ InitRun

Validate ==
    /\ pc = "validate"
    /\ result' = Some(validate(component[1]))
    /\ pc' = "done"
    /\ UNCHANGED <<name, naming_issues, description, desc_result, component,
                   skill_files, validation_results>>
    /\ UNCHANGED doc_vars
    /\ UNCHANGED <<scorer_vars, batch_vars>>

\* try branch: the file parses and validate returns
RunValidateSkill ==
    /\ pc = "run"
    /\ skill_files # <<>>
    /\ ~Head(skill_files).outcome.raises
    /\ LET c == ParsedComponent(Head(skill_files))
       IN /\ component' = Some(c)
          /\ result' = Some(validate(c))
          /\ validation_results' = Append(validation_results, validate(c))
    /\ skill_files' = Tail(skill_files)
    /\ UNCHANGED <<name, naming_issues, description, desc_result, pc>>
    /\ UNCHANGED doc_vars
    /\ UNCHANGED <<scorer_vars, batch_vars>>

\* except branch
RunParseFailure ==
    /\ pc = "run"
    /\ skill_files # <<>>
    /\ Head(skill_files).outcome.raises
    /\ validation_results' =
           Append(validation_results,
                  ParseFailureResult(Head(skill_files).folder_name,
                                     Head(skill_files).outcome.error))
    /\ skill_files' = Tail(skill_files)
    /\ UNCHANGED <<name, naming_issues, description, desc_result, component,
                   result, pc>>
    /\ UNCHANGED doc_vars
    /\ UNCHANGED <<scorer_vars, batch_vars>>

\* The loop is over: run scores validation_results and returns.
RunReturn ==
    /\ pc = "run"
    /\ skill_files = <<>>
    /\ score_report' = Some(score(validation_results))
    /\ pc' = "done"
    /\ UNCHANGED <<name, naming_issues, description, desc_result, component,
                   result, skill_files, validation_results>>
    /\ UNCHANGED <<doc_vars, categorize_vars, batch_vars>>

Next == Validate \/ RunValidateSkill \/ RunParseFailure \/ RunReturn

Spec == Init /\ [][Next]_vars

\* The naming rule on its own.
InitNaming ==
    /\ pc = "naming"
    /\ name \in {Some(n) : n \in Names}
    /\ naming_issues = None
    /\ description = None /\ desc_result = None
    /\ component = None /\ result = None
    /\ skill_files = <<>> /\ validation_results = <<>>
    /\ doc_body = None /\ documentation_score = None
    /\ category_data = <<>> /\ folded = 0 /\ score_report = None
    /\ NoBatch

CheckNaming ==
    /\ pc = "naming"
    /\ naming_issues' = Some(_check_naming(name[1], TestPath))
    /\ pc' = "done"
    /\ UNCHANGED <<name, description, desc_result, component, result,
                   skill_files, validation_results>>
    /\ UNCHANGED doc_vars
    /\ UNCHANGED <<scorer_vars, batch_vars>>

NextNaming == CheckNaming

SpecNaming == InitNaming /\ [][NextNaming]_vars

\* The description-quality rule on its own.
InitDesc ==
    /\ pc = "description"
    /\ description \in {Some(d) : d \in Descriptions}
    /\ desc_result = None
    /\ name = None /\ naming_issues = None
    /\ component = None /\ result = None
    /\ skill_files = <<>> /\ validation_results = <<>>
    /\ doc_body = None /\ documentation_score = None
    /\ category_data = <<>> /\ folded = 0 /\ score_report = None
    /\ NoBatch

CheckDescriptionQuality ==
    /\ pc = "description"
    /\ desc_result' = Some(_check_description_quality(description[1], TestPath))
    /\ pc' = "done"
    /\ UNCHANGED <<name, naming_issues, description, component, result,
                   skill_files, validation_results>>
    /\ UNCHANGED doc_vars
    /\ UNCHANGED <<scorer_vars, batch_vars>>

NextDesc == CheckDescriptionQuality

SpecDesc == InitDesc /\ [][NextDesc]_vars

\* StructuralScorer.score on its own, one issue of _categorize_issues per step.
InitScore ==
    /\ pc = "score"
    /\ validation_results \in SeqsUpTo(ScorerResults, MaxResults)
    /\ category_data = <<>> /\ folded = 0 /\ score_report = None
    /\ NoBatch
    /\ name = None /\ naming_issues = None
    /\ description = None /\ desc_result = None
    /\ component = None /\ result = None
    /\ skill_files = <<>>
    /\ doc_body = None /\ documentation_score = None

unscored == <<name, naming_issues, description, desc_result, component, result,
              skill_files, validation_results, doc_vars, batch_vars>>

\* 'if not validation_results: return self._empty_score()'
ScoreEmpty ==
    /\ pc = "score"
    /\ validation_results = <<>>
    /\ score_report' = Some(_empty_score)
    /\ pc' = "done"
    /\ UNCHANGED <<unscored, categorize_vars>>

\* score reaches the call of _categorize_issues
ScoreBegin ==
    /\ pc = "score"
    /\ validation_results # <<>>
    /\ category_data' = <<>>
    /\ folded' = 0
    /\ pc' = "categorize"
    /\ UNCHANGED <<unscored, score_report>>

\* the issue the loops of _categorize_issues visit next
NextIssue == IssueStream(validation_results)[folded + 1]

ProcessError ==
    /\ pc = "categorize"
    /\ folded < Len(IssueStream(validation_results))
    /\ NextIssue.list = "errors"
    /\ category_data' = ProcessErrorIssue(category_data, NextIssue.issue)
    /\ folded' = folded + 1
    /\ UNCHANGED <<unscored, score_report, pc>>

ProcessWarning ==
    /\ pc = "categorize"
    /\ folded < Len(IssueStream(validation_results))
    /\ NextIssue.list = "warnings"
    /\ category_data' = ProcessWarningIssue(category_data, NextIssue.issue)
    /\ folded' = folded + 1
    /\ UNCHANGED <<unscored, score_report, pc>>

ProcessInfo ==
    /\ pc = "categorize"
    /\ folded < Len(IssueStream(validation_results))
    /\ NextIssue.list = "info"
    /\ category_data' = ProcessInfoIssue(category_data, NextIssue.issue)
    /\ folded' = folded + 1
    /\ UNCHANGED <<unscored, score_report, pc>>

\* The loops are over: the examples are cut, and score builds the type
\* breakdown and the recommendations and returns.
ScoreFinish ==
    /\ pc = "categorize"
    /\ folded = Len(IssueStream(validation_results))
    /\ category_data' = LimitExamples(category_data)
    /\ score_report' = Some(ScoreReport(validation_results, LimitExamples(category_data)))
    /\ pc' = "done"
    /\ UNCHANGED <<unscored, folded>>

NextScore ==
    ScoreEmpty \/ ScoreBegin \/ ProcessError \/ ProcessWarning \/ ProcessInfo \/ ScoreFinish

SpecScore == InitScore /\ [][NextScore]_vars

\* The documentation score on its own.
InitDoc ==
    /\ pc = "documentation"
    /\ doc_body \in {Some(b) : b \in DocBodies}
    /\ documentation_score = None
    /\ name = None /\ naming_issues = None
    /\ description = None /\ desc_result = None
    /\ component = None /\ result = None
    /\ skill_files = <<>> /\ validation_results = <<>>
    /\ category_data = <<>> /\ folded = 0 /\ score_report = None
    /\ NoBatch

CalculateDocumentationScore ==
    /\ pc = "documentation"
    /\ documentation_score' = Some(_calculate_documentation_score(doc_body[1]))
    /\ pc' = "done"
    /\ UNCHANGED <<name, naming_issues, description, desc_result, component,
                   result, skill_files, validation_results, doc_body>>
    /\ UNCHANGED <<scorer_vars, batch_vars>>

NextDoc == CalculateDocumentationScore

SpecDoc == InitDoc /\ [][NextDoc]_vars

\* TestRunner.run_all on a list of plugins, followed by aggregate_results as in
\* cmd_test.  The main thread submits one future per plugin, then handles the
\* futures in the order as_completed hands them out; the pool's threads run
\* self.run on the submitted plugins, at most max_workers at a time.
single_vars == <<name, naming_issues, description, desc_result, component, result,
                 skill_files, validation_results, doc_vars, scorer_vars>>

InitRunAll ==
    /\ pc = "submit"
    /\ plugins \in SeqsUpTo(Plugins, MaxPlugins)
    /\ max_workers \in 1..MaxWorkers
    /\ progress_callback \in BOOLEAN
    /\ futures = <<>> /\ yielded = <<>> /\ plugin_results = <<>>
    /\ completed = 0 /\ progress_updates = <<>> /\ summary = None
    /\ name = None /\ naming_issues = None
    /\ description = None /\ desc_result = None
    /\ component = None /\ result = None
    /\ skill_files = <<>> /\ validation_results = <<>>
    /\ doc_body = None /\ documentation_score = None
    /\ category_data = <<>> /\ folded = 0 /\ score_report = None

\* executor.submit(self.run, plugin) for the next plugin of the list
Submit ==
    /\ pc = "submit"
    /\ Len(futures) < Len(plugins)
    /\ futures' = Append(futures, [state |-> "pending", outcome |-> None])
    /\ UNCHANGED <<plugins, max_workers, progress_callback, yielded, plugin_results,
                   completed, progress_updates, summary, pc, single_vars>>

\* every plugin is submitted: 'completed = 0' and the loop over as_completed
StartCollecting ==
    /\ pc = "submit"
    /\ Len(futures) = Len(plugins)
    /\ completed' = 0
    /\ pc' = "collect"
    /\ UNCHANGED <<plugins, max_workers, progress_callback, futures, yielded,
                   plugin_results, progress_updates, summary, single_vars>>

Running == {j \in DOMAIN futures : futures[j].state = "running"}

\* A thread of the pool takes the oldest queued call, if fewer than
\* max_workers calls are running.
WorkerStart(i) ==
    /\ futures[i].state = "pending"
    /\ \A j \in 1..(i - 1) : futures[j].state # "pending"
    /\ Cardinality(Running) < max_workers
    /\ futures' = [futures EXCEPT ![i].state = "running"]
    /\ UNCHANGED <<plugins, max_workers, progress_callback, yielded, plugin_results,
                   completed, progress_updates, summary, pc, single_vars>>

\* self.run(plugin) returns or raises in its thread
WorkerFinish(i) ==
    /\ futures[i].state = "running"
    /\ futures' = [futures EXCEPT ![i] = [state |-> "finished",
                                          outcome |-> Some(FutureOutcome(plugins[i]))]]
    /\ UNCHANGED <<plugins, max_workers, progress_callback, yielded, plugin_results,
                   completed, progress_updates, summary, pc, single_vars>>

\* Variant of Collectable: as_completed may hand out a finished future again.
Collectable_Again(i) == futures[i].state = "finished"

\* as_completed can hand out this future next
Collectable(i) ==
    /\ futures[i].state = "finished"
    /\ \A k \in DOMAIN yielded : yielded[k] # i

\* try branch of the loop body, and 'completed += 1'
CollectResult(i) ==
    /\ pc = "collect"
    /\ Collectable(i)
    /\ ~futures[i].outcome[1].raised
    /\ plugin_results' = Append(plugin_results, futures[i].outcome[1].value)
    /\ completed' = completed + 1
    /\ yielded' = Append(yielded, i)
    /\ pc' = IF progress_callback THEN "callback" ELSE "collect"
    /\ UNCHANGED <<plugins, max_workers, progress_callback, futures,
                   progress_updates, summary, single_vars>>

\* except branch of the loop body, and 'completed += 1'
CollectFailure(i) ==
    /\ pc = "collect"
    /\ Collectable(i)
    /\ futures[i].outcome[1].raised
    /\ plugin_results' =
           Append(plugin_results, DegradedResult(plugins[i], futures[i].outcome[1].exception))
    /\ completed' = completed + 1
    /\ yielded' = Append(yielded, i)
    /\ pc' = IF progress_callback THEN "callback" ELSE "collect"
    /\ UNCHANGED <<plugins, max_workers, progress_callback, futures,
                   progress_updates, summary, single_vars>>

\* 'if progress_callback: progress_callback(completed, total, plugin["name"])'
ProgressCallback ==
    /\ pc = "callback"
    /\ progress_updates' =
           Append(progress_updates,
                  CallbackArgs(completed, Len(plugins), plugins[yielded[Len(yielded)]]))
    /\ pc' = "collect"
    /\ UNCHANGED <<plugins, max_workers, progress_callback, futures, yielded,
                   plugin_results, completed, summary, single_vars>>

\* as_completed is exhausted: 'return results'
ReturnResults ==
    /\ pc = "collect"
    /\ Len(yielded) = Len(plugins)
    /\ pc' = "returned"
    /\ UNCHANGED <<batch_vars, single_vars>>

\* summary = runner.aggregate_results(results)
Aggregate ==
    /\ pc = "returned"
    /\ summary' = Some(aggregate_results(plugin_results))
    /\ pc' = "aggregated"
    /\ UNCHANGED <<plugins, max_workers, progress_callback, futures, yielded,
                   plugin_results, completed, progress_updates, single_vars>>

NextRunAll ==
    \/ Submit
    \/ StartCollecting
    \/ \E i \in DOMAIN futures : WorkerStart(i)
    \/ \E i \in DOMAIN futures : WorkerFinish(i)
    \/ \E i \in DOMAIN futures : CollectResult(i)
    \/ \E i \in DOMAIN futures : CollectFailure(i)
    \/ ProgressCallback
    \/ ReturnResults
    \/ Aggregate

SpecRunAll == InitRunAll /\ [][NextRunAll]_vars


----------------------------------------------------------------------------
(* Properties *)

\* Every ValidationResult the state holds: validate's return value and the
\* list TestRunner.run is building.
AllResults ==
    (IF result = None THEN {} ELSE {result[1]}) \cup Range(validation_results)

\* validate has returned; Arg and Ret are its argument and return value.
Returned == result # None
Arg == component[1]
Ret == result[1]
ArgFrontmatter == Get(Arg, "frontmatter", <<>>)
ArgPath == Get(Arg, "file_path", UNKNOWN)
ArgFolder == Get(Arg, "folder_name", <<>>)
MissingFields == {"name", "description"} \ DOMAIN ArgFrontmatter
\* validate has returned for a frontmatter with both required fields
Passed == Returned /\ MissingFields = {}

\* some issue of the list has this category and message template
Has(issues, category, fmt) ==
    \E i \in DOMAIN issues :
        issues[i].category = category /\ issues[i].message.fmt = fmt

\* the number of issues of the list with this category
CountCategory(issues, category) ==
    Cardinality({i \in DOMAIN issues : issues[i].category = category})

\* C1: every ValidationResult produced by validate (early return or full
\* path) or by the parse-failure handler of TestRunner.run has valid = TRUE
\* if and only if its errors list is empty.
C1_ValidIffNoErrors ==
    \A r \in AllResults : r.valid <=> (Len(r.errors) = 0)

\* C1 witness: a run has collected a parse-failure result and a fully
\* validated, valid result.
C1_Witness ==
    /\ \E i \in DOMAIN validation_results :
          /\ validation_results[i].scores = None
          /\ Has(validation_results[i].errors, "parsing",
                 "Failed to parse skill file: {str(e)}")
    /\ \E j \in DOMAIN validation_results :
          /\ validation_results[j].scores # None
          /\ validation_results[j].valid
          /\ validation_results[j].errors = <<>>

\* C2: when the frontmatter lacks 'name' or 'description', validate returns
\* right after the required-fields rule: valid is FALSE, errors holds exactly
\* one required_fields ERROR per missing key and nothing else, warnings and
\* info are empty, scores is absent, and component_name is the frontmatter
\* name if present and 'unknown' otherwise.
C2_MissingFieldShortCircuit ==
    (Returned /\ MissingFields # {}) =>
        /\ ~Ret.valid
        /\ Len(Ret.errors) = Cardinality(MissingFields)
        /\ \A i \in DOMAIN Ret.errors :
              /\ Ret.errors[i].severity = ERROR
              /\ Ret.errors[i].category = "required_fields"
        /\ \A k \in MissingFields :
              \E i \in DOMAIN Ret.errors :
                  Ret.errors[i].message.args = <<FieldText(k)>>
        /\ Ret.warnings = <<>>
        /\ Ret.info = <<>>
        /\ Ret.scores = None
        /\ Ret.component_name =
              (IF "name" \in DOMAIN ArgFrontmatter THEN ArgFrontmatter["name"]
               ELSE UNKNOWN)

\* C2 witness: validate returned for a frontmatter without 'description'
\* whose name is too short and whose path is not a SKILL.md; only the
\* required-fields error is reported.
C2_Witness ==
    /\ Returned
    /\ MissingFields = {"description"}
    /\ ArgFrontmatter["name"] = Ab
    /\ ArgPath = LowerCasePath
    /\ ArgFolder = DifferentName
    /\ Len(Ret.errors) = 1

\* The name and description validate read, when both are present.
ArgName == ArgFrontmatter["name"]
ArgDesc == ArgFrontmatter["description"]
Reported == Ret.errors \o Ret.warnings

\* The violations of the checks that do not depend on the description's length.
NamingPathInjectionSchemaReported ==
    /\ Len(ArgName) < 3 =>
          Has(Ret.errors, "naming", "Name '{name}' is too short (minimum 3 characters)")
    /\ Len(ArgName) > 50 =>
          Has(Ret.errors, "naming", "Name '{name}' is too long (maximum 50 characters)")
    /\ ~MatchesKebab(ArgName) =>
          Has(Ret.errors, "naming",
              "Name '{name}' must be kebab-case (lowercase, hyphens only)")
    /\ HasReservedPrefix(ArgName) =>
          Has(Ret.errors, "naming",
              "Name '{name}' uses reserved prefix (claude-, anthropic-)")
    /\ ~EndsWith(ArgPath, SKILL_MD_SUFFIX) =>
          Has(Ret.errors, "file_organization",
              "Skill file must be named 'SKILL.md' (exact case)")
    /\ (ArgFolder # <<>> /\ ArgFolder # ArgName) =>
          Has(Ret.warnings, "file_organization",
              "Folder name '{folder_name}' doesn't match skill name '{name}'")
    /\ (\E i \in DOMAIN ArgDesc : ArgDesc[i] \in {"<", ">"}) =>
          Has(Ret.errors, "security",
              "XML angle brackets detected in frontmatter (security risk)")
    /\ Len(ArgDesc) > 1024 =>
          Has(Ret.errors, "schema_compliance",
              "Description too long ({len(description)} characters, max 1024)")

\* The violations of the action-statement, trigger-condition and
\* vague-language checks.
DescriptionWarningsReported ==
    /\ ~AnyIn(action_verbs, Lower(ArgDesc)) =>
          Has(Reported, "description_quality", "Description lacks clear action statement")
    /\ CountIn(trigger_phrases, Lower(ArgDesc)) = 0 =>
          Has(Reported, "description_quality", "Description missing trigger conditions")
    /\ AnyIn(vague_patterns, Lower(ArgDesc)) =>
          Has(Reported, "description_quality", "Description contains vague language")

\* C3 as stated: for a component with both required fields, every violated
\* check (naming, file path, folder name, action statement, trigger
\* conditions, vague language, injection, schema length) has its issue in the
\* returned errors or warnings, whatever the earlier checks reported.
C3_Original ==
    Passed => (NamingPathInjectionSchemaReported /\ DescriptionWarningsReported)

\* C3 amended: as above (a check counts as violated when the condition the
\* rule tests holds), except that for a description shorter than 10
\* characters the description-quality rule reports its 'too short' ERROR and
\* runs none of its action-statement, trigger-condition and vague-language
\* checks; these three are reported whenever the description has at least 10
\* characters.
C3_AllIssuesReported ==
    Passed =>
        /\ NamingPathInjectionSchemaReported
        /\ Len(ArgDesc) >= 10 => DescriptionWarningsReported
        /\ Len(ArgDesc) < 10 =>
              Has(Ret.errors, "description_quality",
                  "Description too short (minimum 10 characters)")

\* C3 witness: a name with three naming violations, a wrong file name, a
\* folder mismatch and a description over 1024 characters with angle
\* brackets, vague language, no action verb and no trigger phrase: all ten
\* issues are returned.
C3_Witness ==
    /\ Passed
    /\ ArgName = LongReservedName
    /\ ArgDesc = LongBadDesc
    /\ CountCategory(Ret.errors, "naming") = 3
    /\ CountCategory(Reported, "file_organization") = 2
    /\ CountCategory(Ret.warnings, "description_quality") = 3
    /\ CountCategory(Ret.errors, "security") = 1
    /\ CountCategory(Ret.errors, "schema_compliance") = 1

\* C4: for every component that passes the required-fields check, the
\* returned structural score is max(0, 100 - 15*E - 5*W) with E and W the
\* lengths of the returned errors and warnings; it is never negative.
C4_StructuralScore ==
    Passed =>
        LET raw == 100 - 15 * Len(Ret.errors) - 5 * Len(Ret.warnings)
        IN /\ Ret.scores # None
           /\ Ret.scores[1].structural = (IF raw < 0 THEN 0 ELSE raw)
           /\ Ret.scores[1].structural >= 0

\* C4 witness: the penalties exceed 100 points and the score is floored at 0.
C4_Witness ==
    /\ Passed
    /\ 15 * Len(Ret.errors) + 5 * Len(Ret.warnings) > 100
    /\ Ret.scores[1].structural = 0

\* The component of C5: name 'my-skill', folder 'my-skill', a path ending in
\* '/SKILL.md', and a description (within the 1024-character schema bound)
\* with the verb 'Manages', the triggers 'Use when' and 'mentions', no angle
\* bracket and no vague phrase.
C5_Component ==
    /\ Passed
    /\ ArgName = MySkill
    /\ ArgFolder = MySkill
    /\ EndsWith(ArgPath, SKILL_MD_SUFFIX)
    /\ Len(ArgDesc) <= 1024
    /\ Contains(ArgDesc, <<"M", "a", "n", "a", "g", "e", "s">>)
    /\ Contains(ArgDesc, <<"U", "s", "e", " ", "w", "h", "e", "n">>)
    /\ Contains(ArgDesc, <<"m", "e", "n", "t", "i", "o", "n", "s">>)
    /\ \A i \in DOMAIN ArgDesc : ArgDesc[i] \notin {"<", ">"}
    /\ \A i \in DOMAIN vague_patterns : ~Contains(Lower(ArgDesc), vague_patterns[i])

\* C5: that component validates with valid = TRUE, no errors, no warnings
\* and structural score exactly 100.
C5_ValidSkillPasses ==
    C5_Component =>
        /\ Ret.valid
        /\ Ret.errors = <<>>
        /\ Ret.warnings = <<>>
        /\ Ret.scores # None
        /\ Ret.scores[1].structural = 100

\* C5 witness: validate returned for the fixture of the unit test.
C5_Witness ==
    /\ C5_Component
    /\ ArgDesc = ValidDesc
    /\ ArgPath = TestPath
    /\ Ret.scores[1].structural = 100

\* The component of C6: name 'ab', description
\* 'Manages <script> stuff and things'.
C6_Component ==
    /\ Passed
    /\ ArgName = Ab
    /\ ArgDesc = ScriptDesc

C6_OtherIssues ==
    /\ Has(Ret.errors, "naming", "Name '{name}' is too short (minimum 3 characters)")
    /\ Has(Ret.errors, "security",
           "XML angle brackets detected in frontmatter (security risk)")
    /\ Has(Ret.warnings, "description_quality", "Description contains vague language")
    /\ Has(Ret.warnings, "description_quality", "Description missing trigger conditions")
    /\ \A i \in DOMAIN Ret.errors : Ret.errors[i].severity = ERROR
    /\ \A i \in DOMAIN Ret.warnings : Ret.warnings[i].severity = WARNING
    /\ ~Ret.valid

\* C6 as stated: for that component validate emits a naming ERROR for 'too
\* short' and a naming ERROR for the kebab-case format, a security ERROR, a
\* vague-language WARNING and a missing-trigger WARNING, and valid = FALSE.
C6_Original ==
    C6_Component =>
        /\ C6_OtherIssues
        /\ Has(Ret.errors, "naming",
               "Name '{name}' must be kebab-case (lowercase, hyphens only)")

\* C6 amended: for that component validate emits exactly one naming ERROR,
\* the one for 'too short' ('ab' matches the kebab-case pattern, so there is
\* no format ERROR), a security ERROR, a vague-language WARNING and a
\* missing-trigger WARNING, and valid = FALSE.
C6_ShortNameScriptDescription ==
    C6_Component =>
        /\ C6_OtherIssues
        /\ CountCategory(Ret.errors, "naming") = 1
        /\ ~Has(Ret.errors, "naming",
                "Name '{name}' must be kebab-case (lowercase, hyphens only)")

\* C6 witness: validate returned for that component, on a well-named file.
C6_Witness ==
    /\ C6_Component
    /\ ArgPath = TestPath
    /\ Len(Ret.errors) = 2
    /\ Len(Ret.warnings) >= 2

\* The naming rule has returned for the name NamingArg.
NamingReturned == naming_issues # None
NamingArg == name[1]
NamingRet == naming_issues[1]

\* The whole of s is [a-z0-9][a-z0-9-]*[a-z0-9]: lowercase letters, digits
\* and hyphens only, starting and ending with a letter or digit.
IsKebabCase(s) ==
    /\ Len(s) >= 2
    /\ \A i \in 1..Len(s) : s[i] \in LowerSet \cup DigitSet \cup {"-"}
    /\ s[1] # "-"
    /\ s[Len(s)] # "-"

StartsWithReserved(s) ==
    \/ Len(s) >= 7 /\ SubSeq(s, 1, 7) = <<"c", "l", "a", "u", "d", "e", "-">>
    \/ Len(s) >= 10
       /\ SubSeq(s, 1, 10) = <<"a", "n", "t", "h", "r", "o", "p", "i", "c", "-">>

\* C7: for every name that is kebab-case, has 3 to 50 characters and does not
\* start with 'claude-' or 'anthropic-', the naming rule returns no issue.
C7_WellFormedNamesPass ==
    (/\ NamingReturned
     /\ IsKebabCase(NamingArg)
     /\ Len(NamingArg) >= 3
     /\ Len(NamingArg) <= 50
     /\ ~StartsWithReserved(NamingArg)) => NamingRet = <<>>

\* C7 witness: the rule returned no issue for a 50-character kebab-case name
\* that contains a hyphen.
C7_Witness ==
    /\ NamingReturned
    /\ IsKebabCase(NamingArg)
    /\ Len(NamingArg) = 50
    /\ "-" \in Range(NamingArg)
    /\ NamingRet = <<>>

\* C8: the naming rule emits the 'too short' issue exactly when the name has
\* fewer than 3 characters, the 'too long' issue exactly when it has more than
\* 50, the format issue exactly when the name is not kebab-case, and the
\* reserved-prefix issue exactly when it starts with 'claude-' or
\* 'anthropic-'; every issue is an ERROR of category 'naming', and a name
\* shorter than 3 characters yields at least one.
C8_NamingChecksIndependent ==
    NamingReturned =>
        /\ Has(NamingRet, "naming", "Name '{name}' is too short (minimum 3 characters)")
              <=> Len(NamingArg) < 3
        /\ Has(NamingRet, "naming", "Name '{name}' is too long (maximum 50 characters)")
              <=> Len(NamingArg) > 50
        /\ Has(NamingRet, "naming",
               "Name '{name}' must be kebab-case (lowercase, hyphens only)")
              <=> ~IsKebabCase(NamingArg)
        /\ Has(NamingRet, "naming",
               "Name '{name}' uses reserved prefix (claude-, anthropic-)")
              <=> StartsWithReserved(NamingArg)
        /\ \A i \in DOMAIN NamingRet :
              NamingRet[i].severity = ERROR /\ NamingRet[i].category = "naming"
        /\ Len(NamingArg) < 3 => Len(NamingRet) >= 1

\* C9: for a description shorter than 10 characters the description-quality
\* rule returns score 0 and exactly one issue, an ERROR of category
\* 'description_quality'; validate reports that ERROR and no action-statement,
\* trigger-condition or vague-language warning, and the component is invalid
\* with functional score 0.
C9_ShortDescription ==
    (Passed /\ Len(ArgDesc) < 10) =>
        LET out == _check_description_quality(ArgDesc, ArgPath)
        IN /\ out[1] = 0
           /\ Len(out[2]) = 1
           /\ out[2][1].severity = ERROR
           /\ out[2][1].category = "description_quality"
           /\ CountCategory(Ret.errors, "description_quality") = 1
           /\ CountCategory(Ret.warnings, "description_quality") = 0
           /\ ~Ret.valid
           /\ Ret.scores # None
           /\ Ret.scores[1].functional = 0

\* C9 witness: validate returned for the 9-character description
\* 'Too short' of an otherwise clean component; the description error is
\* its only issue.
C9_Witness ==
    /\ Passed
    /\ ArgDesc = TooShortDesc
    /\ Len(ArgDesc) = 9
    /\ ArgName = MySkill
    /\ Len(Ret.errors) = 1
    /\ Ret.warnings = <<>>
    /\ ~Ret.valid
    /\ Ret.scores[1].functional = 0

\* The description-quality rule has returned for the description DescArg.
DescReturned == desc_result # None
DescArg == description[1]
DescScore == desc_result[1][1]

\* Present(p): the phrase p occurs in the lower-cased description.
DescPresent(p) == Contains(Lower(DescArg), p)

\* The points of C10 before clamping.
DescRawScore ==
    LET lengthBucket == IF Len(DescArg) >= 100 THEN 20
                        ELSE IF Len(DescArg) >= 50 THEN 10 ELSE 5
        verb == IF \E v \in Range(action_verbs) : DescPresent(v) THEN 20 ELSE 0
        triggers == 10 * Cardinality({p \in Range(trigger_phrases) : DescPresent(p)})
        quoted == 5 * CountQuoted(DescArg, 1)
        vague == IF \E p \in Range(vague_patterns) : DescPresent(p) THEN 10 ELSE 0
    IN lengthBucket + verb
       + (IF triggers > 30 THEN 30 ELSE triggers)
       + (IF quoted > 20 THEN 20 ELSE quoted)
       - vague

\* C10: for a description of at least 10 characters the score is the length
\* bucket (20 from 100 characters, 10 from 50, else 5), plus 20 for an action
\* verb, plus 10 per distinct trigger phrase up to 30, plus 5 per quoted
\* substring of 3 or more characters up to 20, minus 10 for a vague phrase,
\* clamped to 0..100: never negative and never above 100.
C10_DescriptionScore ==
    (DescReturned /\ Len(DescArg) >= 10) =>
        /\ DescScore =
              (IF DescRawScore < 0 THEN 0
               ELSE IF DescRawScore > 100 THEN 100 ELSE DescRawScore)
        /\ DescScore >= 0
        /\ DescScore <= 100

\* C10 witness: the vague-language penalty exceeds the points earned and the
\* score is 0.
C10_Witness ==
    /\ DescReturned
    /\ Len(DescArg) >= 10
    /\ DescRawScore < 0
    /\ DescScore = 0


\* the list holds this very issue
IssueIn(issue, issues) == \E j \in DOMAIN issues : issues[j] = issue

\* What the naming and description-quality rules return for validate's argument.
RuleIssues ==
    _check_naming(ArgName, ArgPath) \o _check_description_quality(ArgDesc, ArgPath)[2]

\* C11: in every result validate returns, every issue of errors has severity
\* ERROR and every issue of warnings has severity WARNING; and every ERROR
\* (WARNING) issue the naming and description-quality rules return is in
\* errors (warnings).
C11_SeverityRouting ==
    Returned =>
        /\ \A i \in DOMAIN Ret.errors : Ret.errors[i].severity = ERROR
        /\ \A i \in DOMAIN Ret.warnings : Ret.warnings[i].severity = WARNING
        /\ Passed =>
              LET rule_issues == RuleIssues
              IN \A i \in DOMAIN rule_issues :
                  /\ rule_issues[i].severity = ERROR => IssueIn(rule_issues[i], Ret.errors)
                  /\ rule_issues[i].severity = WARNING => IssueIn(rule_issues[i], Ret.warnings)

\* C11 witness: validate returned for a name the naming rule rejects (ERROR)
\* and a description the description rule warns about (WARNING); both lists
\* are populated.
C11_Witness ==
    /\ Passed
    /\ \E i \in DOMAIN RuleIssues :
          RuleIssues[i].severity = ERROR /\ RuleIssues[i].category = "naming"
    /\ \E i \in DOMAIN RuleIssues :
          RuleIssues[i].severity = WARNING /\ RuleIssues[i].category = "description_quality"
    /\ CountCategory(Ret.errors, "naming") >= 1
    /\ CountCategory(Ret.warnings, "description_quality") >= 1

\* the path's last nine characters are exactly '/SKILL.md'
HasSkillMdSuffix(path) ==
    /\ Len(path) >= 9
    /\ SubSeq(path, Len(path) - 8, Len(path)) = <<"/", "S", "K", "I", "L", "L", ".", "m", "d">>

\* C12: for a component that has both required fields, errors holds a
\* file_organization ERROR (one) exactly when the path does not end with the
\* case-sensitive suffix '/SKILL.md'; warnings holds a file_organization
\* WARNING (one) exactly when folder_name is non-empty and differs from the
\* name; a folder mismatch alone leaves the result valid.
C12_FileOrganization ==
    Passed =>
        /\ CountCategory(Ret.errors, "file_organization") =
              (IF HasSkillMdSuffix(ArgPath) THEN 0 ELSE 1)
        /\ CountCategory(Ret.warnings, "file_organization") =
              (IF ArgFolder # <<>> /\ ArgFolder # ArgName THEN 1 ELSE 0)
        /\ (ArgFolder = <<>>) => CountCategory(Ret.warnings, "file_organization") = 0
        /\ (Len(Ret.errors) = CountCategory(Ret.errors, "file_organization")
            /\ HasSkillMdSuffix(ArgPath)) => Ret.valid

\* C12 witness: a lower-case 'skill.md' path gave the ERROR while the folder
\* hint was empty and gave no WARNING.
C12_Witness ==
    /\ Passed
    /\ ArgPath = LowerCasePath
    /\ ArgFolder = <<>>
    /\ Has(Ret.errors, "file_organization",
           "Skill file must be named 'SKILL.md' (exact case)")
    /\ CountCategory(Ret.warnings, "file_organization") = 0

\* C12 witness of the non-blocking case: the folder differs from the name,
\* the warning is there and the result is valid.
C12_FolderDriftValid ==
    /\ Passed
    /\ ArgFolder = DifferentName
    /\ Has(Ret.warnings, "file_organization",
           "Folder name '{folder_name}' doesn't match skill name '{name}'")
    /\ Ret.valid

\* C14: every result with valid = TRUE that validate returns carries the
\* scores 'structural', 'functional' and 'documentation', each within 0..100;
\* it has at most four warnings and its structural score is at least 80.
C14_ValidResultScores ==
    (Returned /\ Ret.valid) =>
        /\ Ret.scores # None
        /\ DOMAIN Ret.scores[1] = {"structural", "functional", "documentation"}
        /\ \A k \in DOMAIN Ret.scores[1] : Ret.scores[1][k] \in 0..100
        /\ Len(Ret.warnings) <= 4
        /\ Ret.scores[1]["structural"] >= 80

\* C14 witness: a valid result with four warnings, where the structural score
\* is exactly 80.
C14_Witness ==
    /\ Returned
    /\ Ret.valid
    /\ Len(Ret.warnings) = 4
    /\ Ret.scores[1]["structural"] = 80


\* _calculate_documentation_score has returned; its argument and return value.
DocReturned == documentation_score # None
DocArg == doc_body[1]
DocScore == documentation_score[1]

\* The number of words of a text, counted at the last character of each word.
WordEnds(text) ==
    Cardinality({i \in DOMAIN text :
        /\ text[i] \notin {" ", "\n"}
        /\ (i = Len(text) \/ text[i + 1] \in {" ", "\n"})})

\* +30 for 500-5000 words, +20 for 200-499, +10 for fewer than 200, +0 above 5000
WordBucket(n) ==
    IF n < 200 THEN 10 ELSE IF n <= 499 THEN 20 ELSE IF n <= 5000 THEN 30 ELSE 0

\* the text occurs in the body at position i
OccursAt(text, sub, i) ==
    /\ i + Len(sub) - 1 <= Len(text)
    /\ \A j \in 1..Len(sub) : text[i + j - 1] = sub[j]

\* the text occurs in the body at position i, letter case aside
OccursAtAnyCase(text, sub, i) ==
    /\ i + Len(sub) - 1 <= Len(text)
    /\ \A j \in 1..Len(sub) : LowerChar(text[i + j - 1]) = LowerChar(sub[j])

ExamplesHeading == <<"#", "#", " ", "E", "x", "a", "m", "p", "l", "e", "s">>
ExampleHeading == <<"#", "#", " ", "E", "x", "a", "m", "p", "l", "e">>

\* The number of '##' markers, counted left to right without overlap: a
\* position starts a marker when it and the next character are '#' and an
\* even number of '#' characters immediately precedes it.
HashRunBefore(text, i) ==
    LET stops == {k \in 0..(i - 1) : k = 0 \/ text[k] # "#"}
    IN (i - 1) - (CHOOSE k \in stops : \A m \in stops : m <= k)

HeadingMarkers(text) ==
    Cardinality({i \in 1..(Len(text) - 1) :
        /\ text[i] = "#" /\ text[i + 1] = "#"
        /\ HashRunBefore(text, i) % 2 = 0})

HeadingPoints(n) == IF n >= 3 THEN 20 ELSE IF n >= 1 THEN 10 ELSE 0

FencePoints(text) ==
    IF \E i \in DOMAIN text : OccursAt(text, <<Backtick, Backtick, Backtick>>, i)
    THEN 15 ELSE 0

\* C13 as stated: the score is the word-count bucket, +25 for an 'Examples'
\* heading matched case-insensitively, the heading-marker points and +15 for
\* a code fence, capped at 100.
C13_Original ==
    DocReturned =>
        DocScore =
            Min(100,
                WordBucket(WordEnds(DocArg))
                + (IF \E i \in DOMAIN DocArg : OccursAtAnyCase(DocArg, ExamplesHeading, i)
                   THEN 25 ELSE 0)
                + HeadingPoints(HeadingMarkers(DocArg))
                + FencePoints(DocArg))

\* C13 amended: as stated, except that the +25 is given when the body
\* contains '## Example' in exactly this case (whatever follows it) or
\* contains '## examples' in any case.
C13_DocumentationScore ==
    DocReturned =>
        /\ DocScore =
              Min(100,
                  WordBucket(WordEnds(DocArg))
                  + (IF \E i \in DOMAIN DocArg :
                            \/ OccursAt(DocArg, ExampleHeading, i)
                            \/ OccursAtAnyCase(DocArg, ExamplesHeading, i)
                     THEN 25 ELSE 0)
                  + HeadingPoints(HeadingMarkers(DocArg))
                  + FencePoints(DocArg))
        /\ DocScore <= 100

\* C13 witness: a body of 202 words with a singular '## Example 1' heading
\* scored 20 + 25 + 10.
C13_Witness ==
    /\ DocReturned
    /\ WordEnds(DocArg) = 202
    /\ \E i \in DOMAIN DocArg : OccursAt(DocArg, ExampleHeading, i)
    /\ ~\E i \in DOMAIN DocArg : OccursAtAnyCase(DocArg, ExamplesHeading, i)
    /\ DocScore = 55


\* StructuralScorer.score has returned; its argument and return value.
ScoreReturned == score_report # None
Scored == validation_results
Report == score_report[1]

\* C15: scoring an empty sequence returns overall_score 0.0,
\* total_components 0, valid_components 0, an empty breakdown_by_category,
\* an empty breakdown_by_type and no recommendations.
C15_EmptyScore ==
    (ScoreReturned /\ Scored = <<>>) =>
        /\ Report.overall_score = [num |-> 0, den |-> 1]
        /\ Report.total_components = 0
        /\ Report.valid_components = 0
        /\ Report.breakdown_by_category = <<>>
        /\ Report.breakdown_by_type = <<>>
        /\ Report.recommendations = <<>>

\* C15 witness: score returned for the empty sequence.
C15_Witness ==
    /\ ScoreReturned
    /\ Scored = <<>>
    /\ Report.total_components = 0

\* A result's share of the mean: its 'structural' score when present (0
\* included), else 100 if valid and 0 if not.
HasStructural(r) ==
    /\ r.scores # None
    /\ "structural" \in DOMAIN r.scores[1]

Share(r) ==
    IF HasStructural(r) THEN r.scores[1]["structural"]
    ELSE IF r.valid THEN 100 ELSE 0

\* the rational q is the mean of the shares of these results
IsMeanOf(q, rs) ==
    /\ q.den > 0
    /\ q.num * Len(rs) = q.den * SumSeq([i \in DOMAIN rs |-> Share(rs[i])])

\* C16: for a non-empty sequence, overall_score is the arithmetic mean of the
\* results' shares; <<structural 100 valid, structural 55 invalid>> gives
\* 77.5 and a valid result with empty scores gives 100.
C16_OverallScore ==
    (ScoreReturned /\ Scored # <<>>) =>
        /\ IsMeanOf(Report.overall_score, Scored)
        /\ Scored = <<perfect_validation_result, flawed_validation_result>> =>
              Report.overall_score = [num |-> 155, den |-> 2]
        /\ Scored = <<missing_structural_result>> =>
              Report.overall_score = [num |-> 100, den |-> 1]

\* C16 witness: the two fixed results were scored 77.5.
C16_Witness ==
    /\ ScoreReturned
    /\ Scored = <<perfect_validation_result, flawed_validation_result>>
    /\ Report.overall_score.num = 155
    /\ Report.overall_score.den = 2

\* C16 witness of the present zero: a valid result whose structural score is
\* 0 counts as 0, not as 100.
C16_ZeroCounts ==
    /\ ScoreReturned
    /\ Scored = <<zero_score_result>>
    /\ Report.overall_score.num = 0

Rank(severity) ==
    IF severity = "error" THEN 2 ELSE IF severity = "warning" THEN 1 ELSE 0

\* The issues of the first n results in the order they are grouped: result
\* by result, and within a result errors, then warnings, then info.
RECURSIVE GroupedIssues(_, _)
GroupedIssues(rs, n) ==
    IF n = 0 THEN <<>>
    ELSE GroupedIssues(rs, n - 1) \o rs[n].errors \o rs[n].warnings \o rs[n].info

AllIssues == GroupedIssues(Scored, Len(Scored))

OfCategory(issues, cat) == SelectSeq(issues, LAMBDA i : i.category = cat)

\* one step of the fold never lowers a category's severity nor drops a category
SeverityOnlyUpgrades ==
    \A i \in DOMAIN category_data :
        /\ i \in DOMAIN category_data'
        /\ category_data'[i][1] = category_data[i][1]
        /\ Rank(category_data'[i][2].severity) >= Rank(category_data[i][2].severity)

\* every category's severity is the highest among all issues of the category
DominantIsHighest ==
    \A i \in DOMAIN category_data :
        LET of == OfCategory(AllIssues, category_data[i][1])
        IN /\ of # <<>>
           /\ \E k \in DOMAIN of : of[k].severity = category_data[i][2].severity
           /\ \A k \in DOMAIN of :
                 Rank(of[k].severity) <= Rank(category_data[i][2].severity)

\* C17: while _categorize_issues folds the issues, a category's severity
\* only ever goes up (info, warning, error), and when the fold is over it is
\* the highest severity among all issues of the category across all results.
C17_SeverityMonotone ==
    [][/\ SeverityOnlyUpgrades
       /\ (pc' = "done" /\ pc = "categorize") => DominantIsHighest']_vars

\* C17 witness: a warning has just been folded into a category that already
\* was at error, and the category is still at error.
C17_Witness ==
    /\ pc = "categorize"
    /\ folded >= 2
    /\ IssueStream(Scored)[folded].list = "warnings"
    /\ \E k \in 1..(folded - 1) :
          /\ IssueStream(Scored)[k].list = "errors"
          /\ IssueStream(Scored)[k].issue.category =
                IssueStream(Scored)[folded].issue.category
    /\ Lookup(category_data, IssueStream(Scored)[folded].issue.category).severity = "error"

Categories == {AllIssues[k].category : k \in DOMAIN AllIssues}

\* C18: breakdown_by_category has one entry per category that has issues;
\* its count is the number of issues (errors, warnings, info) of the category
\* across all results, and its examples are the {message, file} pairs of the
\* first min(3, count) issues of the category in grouping order.
C18_CountAndExamples ==
    (ScoreReturned /\ Scored # <<>>) =>
        LET by_cat == Report.breakdown_by_category
        IN /\ {by_cat[i][1] : i \in DOMAIN by_cat} = Categories
           /\ Len(by_cat) = Cardinality(Categories)
           /\ \A i \in DOMAIN by_cat :
                 LET of == OfCategory(AllIssues, by_cat[i][1])
                     ex == by_cat[i][2].examples
                 IN /\ by_cat[i][2].count = Len(of)
                    /\ Len(ex) <= 3
                    /\ Len(ex) = IF Len(of) < 3 THEN Len(of) ELSE 3
                    /\ \A k \in DOMAIN ex :
                          ex[k] = [message |-> of[k].message, file |-> of[k].file_path]

\* C18 witness: a category with more than three issues kept three examples,
\* the first of them from an error and the third from a warning.
C18_Witness ==
    /\ ScoreReturned
    /\ \E i \in DOMAIN Report.breakdown_by_category :
          LET e == Report.breakdown_by_category[i][2]
              of == OfCategory(AllIssues, Report.breakdown_by_category[i][1])
          IN /\ e.count > 3
             /\ Len(e.examples) = 3
             /\ of[1].severity = "error"
             /\ of[3].severity = "warning"
             /\ e.examples[3].message = of[3].message


Types == {Scored[k].component_type : k \in DOMAIN Scored}

OfType(rs, type) == SelectSeq(rs, LAMBDA r : r.component_type = type)

\* C19: breakdown_by_type has exactly one entry per distinct component_type;
\* its count is the number of results of the type, valid_count the number of
\* those that are valid, and avg_score the mean of their shares.
C19_BreakdownByType ==
    (ScoreReturned /\ Scored # <<>>) =>
        LET by_type == Report.breakdown_by_type
        IN /\ {by_type[i][1] : i \in DOMAIN by_type} = Types
           /\ Len(by_type) = Cardinality(Types)
           /\ \A i \in DOMAIN by_type :
                 LET of == OfType(Scored, by_type[i][1])
                 IN /\ by_type[i][2].count = Len(of)
                    /\ by_type[i][2].valid_count =
                          Cardinality({k \in DOMAIN of : of[k].valid})
                    /\ IsMeanOf(by_type[i][2].avg_score, of)

\* C19 witness: two results of one type, one valid, averaged 77.5.
C19_Witness ==
    /\ ScoreReturned
    /\ Len(Scored) = 2
    /\ Len(Report.breakdown_by_type) = 1
    /\ Report.breakdown_by_type[1][2].count = 2
    /\ Report.breakdown_by_type[1][2].valid_count = 1
    /\ Report.breakdown_by_type[1][2].avg_score = [num |-> 155, den |-> 2]

\* C19 witness of the grouping: two results of different types gave two entries.
C19_TwoTypes ==
    /\ ScoreReturned
    /\ Len(Scored) = 2
    /\ Len(Report.breakdown_by_type) = 2

\* The fixed table of recommendation messages and priorities.
TableMessage(category) ==
    IF category = "required_fields"
    THEN "Add missing required fields to component frontmatter"
    ELSE IF category = "schema_compliance"
    THEN "Fix schema violations (description length, field formats)"
    ELSE IF category = "file_organization"
    THEN "Rename files to match conventions (SKILL.md case-sensitive)"
    ELSE IF category = "naming_convention"
    THEN "Update component names to kebab-case (3-50 chars, lowercase)"
    ELSE IF category = "yaml_validity"
    THEN "Fix YAML/JSON parsing errors in frontmatter"
    ELSE "Address {category} issues"

TablePriority(category) ==
    IF category \in {"required_fields", "schema_compliance", "yaml_validity"} THEN 1
    ELSE IF category \in {"file_organization", "naming_convention"} THEN 2
    ELSE 3

InTable(category) == TablePriority(category) < 3

\* C20: recommendations has exactly one entry for each category of
\* breakdown_by_category whose severity is error or warning and none for a
\* category at info; the entry carries the category's severity, its count as
\* affected_count, and the table's message and priority, or 'Address
\* <category> issues' with priority 3 for a category outside the table.
C20_Recommendations ==
    (ScoreReturned /\ Scored # <<>>) =>
        LET by_cat == Report.breakdown_by_category
            recs == Report.recommendations
        IN /\ \A i \in DOMAIN by_cat :
                 Cardinality({k \in DOMAIN recs : recs[k].category = by_cat[i][1]}) =
                     (IF by_cat[i][2].severity \in {"error", "warning"} THEN 1 ELSE 0)
           /\ \A k \in DOMAIN recs :
                 /\ \E i \in DOMAIN by_cat :
                       /\ by_cat[i][1] = recs[k].category
                       /\ recs[k].severity = by_cat[i][2].severity
                       /\ recs[k].affected_count = by_cat[i][2].count
                 /\ recs[k].message.fmt = TableMessage(recs[k].category)
                 /\ recs[k].message.args =
                       (IF InTable(recs[k].category) THEN <<>> ELSE <<recs[k].category>>)
                 /\ recs[k].priority = TablePriority(recs[k].category)

\* C20 witness: the report has a category at info without a recommendation,
\* a recommendation from the table and one for a category outside the table.
C20_Witness ==
    /\ ScoreReturned
    /\ \E i \in DOMAIN Report.breakdown_by_category :
          /\ Report.breakdown_by_category[i][2].severity = "info"
          /\ \A k \in DOMAIN Report.recommendations :
                Report.recommendations[k].category # Report.breakdown_by_category[i][1]
    /\ \E k \in DOMAIN Report.recommendations :
          Report.recommendations[k].priority = 1
    /\ \E k \in DOMAIN Report.recommendations :
          /\ Report.recommendations[k].priority = 3
          /\ Report.recommendations[k].message.fmt = "Address {category} issues"


\* ERROR=0, WARNING=1, INFO=2
SeverityRank(severity) ==
    IF severity = "error" THEN 0 ELSE IF severity = "warning" THEN 1 ELSE 2

\* the first entry does not come after the second in (priority, severity rank)
NotAfter(a, b) ==
    \/ a.priority < b.priority
    \/ /\ a.priority = b.priority
       /\ SeverityRank(a.severity) <= SeverityRank(b.severity)

\* C21: recommendations is sorted ascending by (priority, severity rank): of
\* two adjacent entries the earlier has the smaller priority, or the same
\* priority and a severity rank not greater.  One ERROR in required_fields
\* and one WARNING in file_organization give exactly two entries,
\* required_fields first.
C21_RecommendationsSorted ==
    ScoreReturned =>
        LET recs == Report.recommendations
        IN /\ \A k \in 1..(Len(recs) - 1) : NotAfter(recs[k], recs[k + 1])
           /\ (/\ Len(AllIssues) = 2
               /\ Len(OfCategory(AllIssues, "required_fields")) = 1
               /\ OfCategory(AllIssues, "required_fields")[1].severity = ERROR
               /\ Len(OfCategory(AllIssues, "file_organization")) = 1
               /\ OfCategory(AllIssues, "file_organization")[1].severity = WARNING) =>
                 /\ Len(recs) = 2
                 /\ recs[1].category = "required_fields"
                 /\ recs[2].category = "file_organization"

\* C21 witness: the file_organization warning was met before the
\* required_fields error, and the error's recommendation still comes first.
C21_Witness ==
    /\ ScoreReturned
    /\ Scored = <<result_with_warning, result_with_error>>
    /\ Len(Report.recommendations) = 2
    /\ Report.recommendations[1].category = "required_fields"
    /\ Report.breakdown_by_category[1][1] = "file_organization"


\* The permutations of a sequence of results.
Perms(rs) == {[i \in DOMAIN rs |-> rs[f[i]]] : f \in Permutations(DOMAIN rs)}

Reverse(xs) == [i \in DOMAIN xs |-> xs[Len(xs) + 1 - i]]

\* The same results with the issues of every list in reverse order.
ReverseIssues(rs) ==
    [i \in DOMAIN rs |->
        [rs[i] EXCEPT !.errors = Reverse(@), !.warnings = Reverse(@), !.info = Reverse(@)]]

\* The inputs that hold the same results, or the same issues per category, in
\* another order.
Reorderings(rs) == Perms(rs) \cup {ReverseIssues(q) : q \in Perms(rs)}

\* position of the first issue of the category in grouping order
FirstSeen(cat) ==
    CHOOSE k \in DOMAIN AllIssues :
        /\ AllIssues[k].category = cat
        /\ \A m \in 1..(k - 1) : AllIssues[m].category # cat

\* C22 as stated: every reordering of the input gives the recommendations in
\* the same order, ties included.
C22_Original ==
    (ScoreReturned /\ Scored # <<>>) =>
        \A other \in Reorderings(Scored) :
            score(other).recommendations = Report.recommendations

\* C22 amended: every reordering of the input gives the same recommendation
\* entries, and entries that differ in (priority, severity rank) in the same
\* relative order; entries that tie on (priority, severity rank) are in the
\* order in which their categories first appear in the input.
C22_OrderUpToTies ==
    (ScoreReturned /\ Scored # <<>>) =>
        LET recs == Report.recommendations
        IN /\ \A other \in Reorderings(Scored) :
                 LET others == score(other).recommendations
                 IN /\ Len(others) = Len(recs)
                    /\ Range(others) = Range(recs)
                    /\ \A k \in 1..(Len(others) - 1) : NotAfter(others[k], others[k + 1])
           /\ \A k \in DOMAIN recs : \A m \in DOMAIN recs :
                 (/\ k < m
                  /\ recs[k].priority = recs[m].priority
                  /\ recs[k].severity = recs[m].severity) =>
                     FirstSeen(recs[k].category) < FirstSeen(recs[m].category)

\* C22 witness: two results were scored, and scoring them in the other order
\* gives the same entries with two tying entries swapped.
C22_Witness ==
    /\ ScoreReturned
    /\ Len(Scored) = 2
    /\ score(Reverse(Scored)).recommendations # Report.recommendations
    /\ Range(score(Reverse(Scored)).recommendations) = Range(Report.recommendations)

SumOfCounts(by_type) == SumSeq([i \in DOMAIN by_type |-> by_type[i][2].count])
SumOfValidCounts(by_type) == SumSeq([i \in DOMAIN by_type |-> by_type[i][2].valid_count])

\* C24: in every report, total_components is the number of input results
\* and the sum of count over breakdown_by_type; valid_components is the sum
\* of valid_count over breakdown_by_type and at most total_components; and
\* when every share lies in [0, 100], so does overall_score.
C24_ReportInvariants ==
    ScoreReturned =>
        /\ Report.total_components = Len(Scored)
        /\ Report.total_components = SumOfCounts(Report.breakdown_by_type)
        /\ Report.valid_components = SumOfValidCounts(Report.breakdown_by_type)
        /\ Report.valid_components <= Report.total_components
        /\ (\A k \in DOMAIN Scored : Share(Scored[k]) \in 0..100) =>
              /\ Report.overall_score.den > 0
              /\ Report.overall_score.num >= 0
              /\ Report.overall_score.num <= 100 * Report.overall_score.den

\* C24 witness: two results of two types, one of them valid, were scored to
\* a mean strictly between 0 and 100.
C24_Witness ==
    /\ ScoreReturned
    /\ Report.total_components = 2
    /\ Report.valid_components = 1
    /\ Len(Report.breakdown_by_type) = 2
    /\ Report.overall_score.num > 0
    /\ Report.overall_score.num < 100 * Report.overall_score.den

\* the synthetic result of a skill whose parsing or validation raised
IsParseFailure(r, folder_name) ==
    /\ r.component_type = "skill"
    /\ r.component_name = folder_name
    /\ r.component_path = SkillPath(folder_name)
    /\ ~r.valid
    /\ Len(r.errors) = 1
    /\ r.errors[1].severity = ERROR
    /\ r.errors[1].category = "parsing"
    /\ r.warnings = <<>>
    /\ r.info = <<>>
    /\ r.scores = None

\* one step of TestRunner.run on a skill that raises: its synthetic result is
\* appended and the loop goes on with the remaining skills
FailureIsCollected ==
    (pc = "run" /\ skill_files # <<>> /\ Head(skill_files).outcome.raises) =>
        /\ pc' = "run"
        /\ skill_files' = Tail(skill_files)
        /\ Len(validation_results') = Len(validation_results) + 1
        /\ SubSeq(validation_results', 1, Len(validation_results)) = validation_results
        /\ IsParseFailure(validation_results'[Len(validation_results')],
                          Head(skill_files).folder_name)

\* the step that ends the loop of TestRunner.run returns a structural score
\* over everything collected, synthetic results included
RunStillScores ==
    (pc = "run" /\ skill_files = <<>>) =>
        /\ pc' = "done"
        /\ validation_results' = validation_results
        /\ score_report' # None
        /\ score_report'[1].total_components = Len(validation_results)
        /\ score_report'[1].valid_components =
              Cardinality({k \in DOMAIN validation_results : validation_results[k].valid})

\* C25: when parsing or validating one skill file raises, TestRunner.run
\* appends a synthetic result for that skill (valid FALSE, exactly one ERROR
\* of category 'parsing', no warnings, no scores), goes on with the remaining
\* skills, and still returns a structural score over all collected results.
C25_ParseFailureContinues == [][FailureIsCollected /\ RunStillScores]_vars

\* C25 witness: run returned a score for a plugin whose first skill raised
\* and whose second skill was validated and is valid.
C25_Witness ==
    /\ pc = "done"
    /\ ScoreReturned
    /\ Len(validation_results) = 2
    /\ IsParseFailure(validation_results[1], validation_results[1].component_name)
    /\ validation_results[2].valid
    /\ validation_results[2].scores # None
    /\ Report.total_components = 2
    /\ Report.valid_components = 1

\* the report of scoring nothing
EmptyReport ==
    [overall_score |-> [num |-> 0, den |-> 1], total_components |-> 0,
     valid_components |-> 0, breakdown_by_category |-> <<>>,
     breakdown_by_type |-> <<>>, recommendations |-> <<>>]

\* the entry of run_all's result list that belongs to this plugin
IsEntryOf(entry, plugin_info) ==
    /\ entry.plugin_name = plugin_info.name
    /\ entry.plugin_path = plugin_info.path
    /\ IF RunRaises(plugin_info)
       THEN /\ "error" \in DOMAIN entry
            /\ entry.error = PermissionDenied
            /\ entry.validation_results = <<>>
            /\ entry.structural_score = EmptyReport
       ELSE /\ "error" \notin DOMAIN entry
            /\ Len(entry.validation_results) = Len(SkillsAt(plugin_info.path))
            /\ entry.structural_score.total_components = Len(entry.validation_results)

RunAllReturned == pc \in {"returned", "aggregated"}

\* C26: whatever the worker count and the interleaving of the worker
\* threads, run_all's list holds one entry per future handled so far, each
\* future is handled at most once, and at the return there is exactly one
\* entry per submitted plugin; a plugin whose run raised has a degraded entry
\* (an 'error' text, no validation results, the empty score), and the other
\* plugins have their ordinary entries.
C26_OneEntryPerPlugin ==
    /\ Len(plugin_results) = Len(yielded)
    /\ Len(plugin_results) = completed
    /\ \A k \in DOMAIN yielded : \A m \in DOMAIN yielded : k # m => yielded[k] # yielded[m]
    /\ \A k \in DOMAIN yielded :
          /\ yielded[k] \in DOMAIN plugins
          /\ k \in DOMAIN plugin_results
          /\ IsEntryOf(plugin_results[k], plugins[yielded[k]])
    /\ RunAllReturned =>
          /\ Len(plugin_results) = Len(plugins)
          /\ Range(yielded) = DOMAIN plugins

\* C26 witness: two workers, two plugins; the second plugin's run raised and
\* was collected first, and the first plugin's entry was returned as well.
C26_Witness ==
    /\ pc = "returned"
    /\ max_workers = 2
    /\ Len(plugins) = 2
    /\ yielded = <<2, 1>>
    /\ "error" \in DOMAIN plugin_results[1]
    /\ "error" \notin DOMAIN plugin_results[2]
    /\ plugin_results[2].validation_results # <<>>

\* what holds of the calls received so far
ProgressSoFar ==
    /\ \A k \in DOMAIN progress_updates :
          /\ progress_updates[k].current = k
          /\ progress_updates[k].total = Len(plugins)
          /\ k \in DOMAIN yielded
          /\ k \in DOMAIN plugin_results
          /\ progress_updates[k].plugin = plugins[yielded[k]].name
          /\ progress_updates[k].plugin = plugin_results[k].plugin_name
    /\ (progress_callback /\ RunAllReturned) =>
          /\ Len(progress_updates) = Len(plugins)
          /\ plugins # <<>> =>
                progress_updates[Len(progress_updates)].current = Len(plugins)

\* a call of the callback comes after the entry it reports was appended
ProgressAfterAppend ==
    (progress_updates' # progress_updates) =>
        /\ Len(progress_updates') = Len(progress_updates) + 1
        /\ SubSeq(progress_updates', 1, Len(progress_updates)) = progress_updates
        /\ Len(plugin_results) = Len(progress_updates')
        /\ plugin_results' = plugin_results

\* C27: with a progress callback, run_all calls it once per plugin as the
\* plugin's result is collected: total is always len(plugins), current is
\* 1, 2, ..., total in this order whatever the completion order, the last
\* call has current = total, and each call comes only after the plugin's
\* entry was appended to the results.
C27_ProgressCallback == []ProgressSoFar /\ [][ProgressAfterAppend]_vars

\* C27 witness: the callback was called for two plugins that were collected
\* in the reverse of their submission order.
C27_Witness ==
    /\ pc = "returned"
    /\ progress_callback
    /\ yielded = <<2, 1>>
    /\ Len(progress_updates) = 2
    /\ progress_updates[1].current = 1
    /\ progress_updates[1].plugin = plugins[2].name
    /\ progress_updates[2].current = 2
    /\ progress_updates[2].plugin = plugins[1].name
    /\ plugins[1].name # plugins[2].name

\* aggregate_results has returned; its argument and return value.
Aggregated == summary # None
Summary == summary[1]

\* the validation results of all plugin results, as (plugin, component) pairs
ComponentsOf(rs) ==
    UNION {{<<i, k>> : k \in DOMAIN rs[i].validation_results} : i \in DOMAIN rs}

\* C28: aggregate_results returns total_plugins = number of plugin results,
\* total_components = sum of their validation-result counts, and
\* plugins_clean + plugins_with_errors = total_plugins, where
\* plugins_with_errors counts exactly the plugins with at least one
\* validation result that is not valid; a plugin without components, or one
\* whose run failed, counts as clean.
C28_AggregateCounts ==
    Aggregated =>
        LET with_invalid ==
                {i \in DOMAIN plugin_results :
                    \E k \in DOMAIN plugin_results[i].validation_results :
                        ~plugin_results[i].validation_results[k].valid}
            without_components ==
                {i \in DOMAIN plugin_results : plugin_results[i].validation_results = <<>>}
        IN /\ Summary.total_plugins = Len(plugin_results)
           /\ Summary.total_components = Cardinality(ComponentsOf(plugin_results))
           /\ Summary.plugins_clean + Summary.plugins_with_errors = Summary.total_plugins
           /\ Summary.plugins_with_errors = Cardinality(with_invalid)
           /\ Summary.plugins_clean >= Cardinality(without_components)

\* C28 witness: a plugin whose run failed and a plugin with two invalid
\* components were aggregated: one clean, one with errors, two components.
C28_Witness ==
    /\ Aggregated
    /\ Len(plugin_results) = 2
    /\ \E i \in DOMAIN plugin_results : "error" \in DOMAIN plugin_results[i]
    /\ Summary.total_plugins = 2
    /\ Summary.total_components = 2
    /\ Summary.plugins_with_errors = 1
    /\ Summary.plugins_clean = 1

\* the issues the naming rule emitted for a result of the full path of
\* validate (a result without scores never reached the naming rule)
NamingIssuesOf(r) ==
    IF r.scores = None THEN <<>> ELSE _check_naming(r.component_name, r.component_path)

\* the positions of a category's recommendations
RecsFor(recs, cat) == {k \in DOMAIN recs : recs[k].category = cat}

\* run has returned the score of what the validator and the parse-failure
\* handler produced
RunScored == pc = "done" /\ ScoreReturned

\* C29: in the pipeline from validator to scorer, every issue the naming
\* rule emits has category 'naming', which the recommendation table does not
\* hold: a plugin with a naming violation gets one recommendation for
\* 'naming' with the message 'Address naming issues' and priority 3, placed
\* after any 'file_organization' recommendation, and no issue or
\* recommendation ever has the category or the message of the
\* 'naming_convention' template.
C29_NamingOutsideTable ==
    RunScored =>
        LET recs == Report.recommendations
            violating == {k \in DOMAIN Scored : NamingIssuesOf(Scored[k]) # <<>>}
        IN /\ \A k \in DOMAIN Scored : \A j \in DOMAIN NamingIssuesOf(Scored[k]) :
                 /\ NamingIssuesOf(Scored[k])[j].category = "naming"
                 /\ IssueIn(NamingIssuesOf(Scored[k])[j],
                            Scored[k].errors \o Scored[k].warnings)
           /\ ~HasKey(templates, "naming")
           /\ (violating # {}) =>
                 /\ Cardinality(RecsFor(recs, "naming")) = 1
                 /\ \A k \in RecsFor(recs, "naming") :
                       /\ recs[k].message = Text("Address {category} issues", <<"naming">>)
                       /\ recs[k].priority = 3
                       /\ \A m \in RecsFor(recs, "file_organization") : m < k
           /\ \A j \in DOMAIN AllIssues : AllIssues[j].category # "naming_convention"
           /\ \A k \in DOMAIN recs :
                 /\ recs[k].category # "naming_convention"
                 /\ recs[k].message.fmt #
                       "Update component names to kebab-case (3-50 chars, lowercase)"

\* C29 witness: run scored a skill whose name is too short and whose folder
\* has another name: the file_organization recommendation (priority 2) comes
\* before the one for naming (priority 3).
C29_Witness ==
    /\ RunScored
    /\ \E k \in DOMAIN Scored : NamingIssuesOf(Scored[k]) # <<>>
    /\ \E m \in RecsFor(Report.recommendations, "file_organization") :
       \E k \in RecsFor(Report.recommendations, "naming") :
          /\ m < k
          /\ Report.recommendations[m].priority = 2
          /\ Report.recommendations[k].priority = 3

\* the result stopped at the required-fields rule, or came from the
\* parse-failure handler
StoppedEarly(r) ==
    \E j \in DOMAIN r.errors : r.errors[j].category \in {"required_fields", "parsing"}

\* what a result of the pipeline adds to the sum of the mean: nothing when
\* it stopped early, else the structural score validate computed for it
Contribution(r) ==
    IF StoppedEarly(r) THEN 0
    ELSE Max(0, 100 - 15 * Len(r.errors) - 5 * Len(r.warnings))

SumOfContributions(rs) == SumSeq([k \in DOMAIN rs |-> Contribution(rs[k])])

\* C30: a result of validate's early return or of the parse-failure handler
\* has no scores and valid = FALSE and so adds 0 to the plugin's
\* overall_score and to its type's avg_score; a component that passes the
\* required-fields rule always has a structural score, the one computed from
\* its errors and warnings, and adds that score.
C30_EarlyResultsCountZero ==
    /\ Returned => ((MissingFields # {}) <=> (Ret.scores = None))
    /\ RunScored =>
          /\ \A k \in DOMAIN Scored :
                IF StoppedEarly(Scored[k])
                THEN /\ Scored[k].scores = None
                     /\ ~Scored[k].valid
                ELSE /\ Scored[k].scores # None
                     /\ "structural" \in DOMAIN Scored[k].scores[1]
                     /\ Scored[k].scores[1]["structural"] = Contribution(Scored[k])
          /\ Scored # <<>> =>
                /\ Report.overall_score.num * Len(Scored) =
                      Report.overall_score.den * SumOfContributions(Scored)
                /\ Len(Report.breakdown_by_type) = 1
                /\ Report.breakdown_by_type[1][1] = "skill"
                /\ Report.breakdown_by_type[1][2].avg_score = Report.overall_score

\* C30 witness: run scored a result that stopped early and a skill with the
\* structural score 100 to the mean 50.
C30_Witness ==
    /\ RunScored
    /\ Len(Scored) = 2
    /\ StoppedEarly(Scored[1])
    /\ ~StoppedEarly(Scored[2])
    /\ Scored[2].scores[1]["structural"] = 100
    /\ Report.overall_score = [num |-> 50, den |-> 1]

====
